---- MODULE Spec2Model ----
(***************************************************************************)
(* Model of the pump sniper: the Sniper decision loop of src/lib.rs, the   *)
(* stream task that feeds its event channel, the price fetcher and the     *)
(* transaction executor it calls.                                          *)
(*                                                                         *)
(* Amounts: lamports are small naturals.  USD values are counted in units  *)
(* of 1e-9 USD, so that (sol_amount / 1e9) * sol_price of price.rs is the  *)
(* product sol_amount * sol_price in that unit; f64 rounding is not        *)
(* modelled.  A u64 is a natural below U64Modulus.                         *)
(***************************************************************************)
EXTENDS Integers, Sequences, FiniteSets, TLC

\* ------------------------------------------------------------------ bounds
\* Number of chain updates the stream task publishes in one run.
MaxEvents == 3
\* Width of the model's u64: wide enough for a rate of 10000 basis points.
WordBits == 14

U64Modulus == 2 ^ WordBits
\* Largest reserve and largest amount the price functions are called with.
MaxReserve == 3
MaxAmount == 3
\* Significant bits of the model's f64: fewer than WordBits, as 53 < 64.
MantissaBits == 11

\* ------------------------------------------------------------ configuration
\* Config fields read by the decision loop (values chosen for the model).
market_cap_threshold_usd == 8
buy_amount_sol == 1

\* ------------------------------------------------------------------- domain
\* An optional value is a sequence of length 0 or 1.
Some(x) == <<x>>

\* A Result: Ok(value) or Err(error).
Ok(value) == [ok |-> TRUE, error |-> "", value |-> Some(value)]
Err(error) == [ok |-> FALSE, error |-> error, value |-> <<>>]

\* The mints the stream reports.
Mints == {"m1", "m2"}
Prices == {2}

\* Pubkey::try_find_program_address for the seeds (BONDING_CURVE_SEED, mint)
\* and the Pump.fun program: the address, or nothing when no bump seed gives
\* an address off the curve (the key m3 stands for such a mint).
try_find_program_address(mint) ==
    CASE mint = "m1" -> Some("c1")
      [] mint = "m2" -> Some("c2")
      [] OTHER -> <<>>

\* utils/pda.rs: the bonding-curve address is a function of the mint alone.
derive_bonding_curve_pda(mint) ==
    LET found == try_find_program_address(mint)
    IN  IF found # <<>> THEN Ok(found[1]) ELSE Err("RpcError")

CurveAddresses == {derive_bonding_curve_pda(m).value[1] : m \in Mints}

\* accounts/token_info.rs: the fields the decision loop reads or compares.
TokenInfo(mint, bonding_curve, creation_signature) ==
    [mint |-> mint, bonding_curve |-> bonding_curve,
     creation_signature |-> creation_signature]

\* ------------------------------------------------------------------- parser
\* Most instructions of one transaction message.
MaxInstructions == 2

\* constants/mod.rs.
CREATE_DISCRIMINATOR == <<24, 30, 200, 40, 5, 28, 7, 119>>
BUY_DISCRIMINATOR == <<102, 6, 61, 18, 1, 218, 235, 234>>

\* A Pubkey is named by a string; its 32 bytes repeat one value.
Pubkeys == {"m1", "m2", "m3", "creator", "c1", "c2"}

KeyBytes(pubkey) ==
    [i \in 1..32 |-> CASE pubkey = "m1" -> 1
                       [] pubkey = "m2" -> 2
                       [] pubkey = "m3" -> 3
                       [] pubkey = "creator" -> 9
                       [] pubkey = "c1" -> 11
                       [] pubkey = "c2" -> 12]

\* Pubkey::try_from(&[u8]): exactly 32 bytes.
Pubkey_try_from(bytes) ==
    IF Len(bytes) # 32
    THEN <<>>
    ELSE Some(CHOOSE pubkey \in Pubkeys : KeyBytes(pubkey) = bytes)

\* A message: its compiled instructions (payload bytes and indices into the
\* account-key table, counted from 0) and that table.
CompiledInstruction(data, accounts) == [data |-> data, accounts |-> accounts]
Message(instructions, account_keys) ==
    [instructions |-> instructions, account_keys |-> account_keys]

\* SubscribeUpdateTransactionInfo: the transaction and its message are
\* optional.
TransactionInfo(message) == [transaction |-> Some([message |-> Some(message)])]
NoMessage == [transaction |-> Some([message |-> <<>>])]
NoTransaction == [transaction |-> <<>>]

\* Borsh u32: four bytes, little-endian.
ReadU32(bytes) ==
    bytes[1] + (256 * bytes[2]) + (65536 * bytes[3]) + (16777216 * bytes[4])

\* Borsh String: a u32 length, then that many bytes of UTF-8 (the strings of
\* the model are ASCII): the string and the bytes after it, if it decodes.
ReadString(bytes) ==
    IF Len(bytes) < 4
    THEN <<>>
    ELSE LET length == ReadU32(bytes)
         IN  IF Len(bytes) - 4 < length
             THEN <<>>
             ELSE LET value == SubSeq(bytes, 5, 4 + length)
                  IN  IF \E i \in 1..length : value[i] >= 128
                      THEN <<>>
                      ELSE Some([value |-> value,
                                 rest |-> SubSeq(bytes, 5 + length, Len(bytes))])

\* CreateInstruction::try_from_slice: name, symbol, uri, then the 32 bytes of
\* the creator, and no byte left over.
try_from_slice(bytes) ==
    LET name == ReadString(bytes)
    IN  IF name = <<>> THEN Err("InvalidData")
        ELSE LET symbol == ReadString(name[1].rest)
             IN  IF symbol = <<>> THEN Err("InvalidData")
                 ELSE LET uri == ReadString(symbol[1].rest)
                      IN  IF uri = <<>> THEN Err("InvalidData")
                          ELSE IF Len(uri[1].rest) # 32 THEN Err("InvalidData")
                          ELSE Ok([name |-> name[1].value,
                                   symbol |-> symbol[1].value,
                                   uri |-> uri[1].value,
                                   creator |-> Pubkey_try_from(uri[1].rest)[1]])

\* instructions/create.rs CreateInstruction::from_bytes.
from_bytes(data) ==
    IF Len(data) < 8 THEN Err("InvalidData")
    ELSE IF SubSeq(data, 1, 8) # CREATE_DISCRIMINATOR THEN Err("InvalidData")
    ELSE try_from_slice(SubSeq(data, 9, Len(data)))

\* is_create_transaction looking at the first instruction only.
is_create_transaction_FirstOnly(transaction) ==
    IF transaction.transaction = <<>> THEN FALSE
    ELSE IF transaction.transaction[1].message = <<>> THEN FALSE
    ELSE LET instructions == transaction.transaction[1].message[1].instructions
         IN  /\ instructions # <<>>
             /\ Len(instructions[1].data) >= 8
             /\ SubSeq(instructions[1].data, 1, 8) = CREATE_DISCRIMINATOR

\* utils/parser.rs is_create_transaction: the loop returns true at the first
\* instruction whose first 8 bytes are the discriminator.
is_create_transaction(transaction) ==
    IF transaction.transaction = <<>> THEN FALSE
    ELSE IF transaction.transaction[1].message = <<>> THEN FALSE
    ELSE LET instructions == transaction.transaction[1].message[1].instructions
         IN  \E i \in 1..Len(instructions) :
                 /\ Len(instructions[i].data) >= 8
                 /\ SubSeq(instructions[i].data, 1, 8) = CREATE_DISCRIMINATOR

\* extract_mint_from_instruction reading the last account index.
extract_mint_from_instruction_LastAccount(message, instruction_index) ==
    IF instruction_index \notin 1..Len(message.instructions)
    THEN <<>>
    ELSE LET accounts == message.instructions[instruction_index].accounts
         IN  IF accounts = <<>>
             THEN <<>>
             ELSE IF accounts[Len(accounts)] + 1 > Len(message.account_keys)
             THEN <<>>
             ELSE Pubkey_try_from(
                      message.account_keys[accounts[Len(accounts)] + 1])

\* utils/parser.rs extract_mint_from_instruction; instruction_index counts
\* from 1 here, the account index from 0 as in the message.
extract_mint_from_instruction(message, instruction_index) ==
    IF instruction_index \notin 1..Len(message.instructions)
    THEN <<>>
    ELSE LET accounts == message.instructions[instruction_index].accounts
         IN  IF accounts = <<>>
             THEN <<>>
             ELSE IF accounts[1] + 1 > Len(message.account_keys)
             THEN <<>>
             ELSE Pubkey_try_from(message.account_keys[accounts[1] + 1])

\* The loop of parse_token_creation from instruction `index` on: an
\* instruction that fails at some step is logged and the scan goes on.
RECURSIVE parse_instructions(_, _, _)
parse_instructions(message, index, signature) ==
    IF index > Len(message.instructions)
    THEN <<>>
    ELSE LET instruction == message.instructions[index]
             later == parse_instructions(message, index + 1, signature)
         IN  IF Len(instruction.data) < 8 THEN later
             ELSE IF SubSeq(instruction.data, 1, 8) # CREATE_DISCRIMINATOR
             THEN later
             ELSE IF ~from_bytes(instruction.data).ok THEN later
             ELSE LET mint == extract_mint_from_instruction(message, index)
                  IN  IF mint = <<>> THEN later
                      ELSE LET bonding_curve == derive_bonding_curve_pda(mint[1])
                           IN  IF ~bonding_curve.ok THEN later
                               ELSE Some(TokenInfo(mint[1],
                                                   bonding_curve.value[1],
                                                   signature))

\* utils/parser.rs parse_token_creation.
parse_token_creation(transaction, signature) ==
    IF transaction.transaction = <<>> THEN <<>>
    ELSE IF transaction.transaction[1].message = <<>> THEN <<>>
    ELSE parse_instructions(transaction.transaction[1].message[1], 1, signature)

\* A creation payload that decodes: the discriminator, name "a", empty
\* symbol and uri, and the creator.
CreatePayload ==
    CREATE_DISCRIMINATOR \o <<1, 0, 0, 0, 97>> \o <<0, 0, 0, 0>>
      \o <<0, 0, 0, 0>> \o KeyBytes("creator")

\* The creations the stream delivers: (mint, transaction signature); m1 is
\* created by two transactions, so that a re-delivery can differ.
Creations == {<<"m1", "s1">>, <<"m1", "s2">>, <<"m2", "s1">>}

\* What parse_token_creation returns when its scan succeeds at an
\* instruction that names `mint`.
ParsedToken(mint, signature) ==
    TokenInfo(mint, derive_bonding_curve_pda(mint).value[1], signature)

ParsedTokens == {ParsedToken(c[1], c[2]) : c \in Creations}

\* accounts/bonding_curve.rs: BondingCurveAccount.
BondingCurveAccount(vt, vs, rt, supply, complete) ==
    [virtual_token_reserves |-> vt, virtual_sol_reserves |-> vs,
     real_token_reserves |-> rt, token_total_supply |-> supply,
     complete |-> complete]

\* Bytes of the Borsh layout of BondingCurveAccount: the u64 discriminator,
\* five u64 amounts, the bool and the creator Pubkey.
BondingCurveAccountSize == 8 + (5 * 8) + 1 + 32

\* The account snapshots of the model: market cap 2 (below the threshold),
\* market cap 4 (at the threshold), market cap 4 on a complete curve, and
\* market cap 0 with no virtual token reserves.
LowCurve == BondingCurveAccount(2, 2, 1, 2, FALSE)
HighCurve == BondingCurveAccount(1, 2, 1, 2, FALSE)
CompleteCurve == BondingCurveAccount(1, 2, 0, 2, TRUE)
EmptyCurve == BondingCurveAccount(0, 2, 1, 2, FALSE)

\* What RPC reads return, and what account updates carry.
Curves == {LowCurve, HighCurve, CompleteCurve, EmptyCurve}
UpdateCurves == {LowCurve, HighCurve}

\* `x as u64`: narrowing keeps the low bits.
AsU64(x) == x % U64Modulus

get_market_cap_sol(curve) ==
    IF curve.virtual_token_reserves = 0
    THEN 0
    ELSE AsU64((curve.token_total_supply * curve.virtual_sol_reserves)
                 \div curve.virtual_token_reserves)

\* common/market_data.rs: MarketData::new, the field the loop reads.
MarketData(token_info, bonding_curve_data) ==
    [token_info |-> token_info,
     bonding_curve_data |-> bonding_curve_data,
     current_market_cap_sol |-> get_market_cap_sol(bonding_curve_data)]

\* ------------------------------------------------------------------- events
TokenCreated(token_info) ==
    [type |-> "TokenCreated", token_info |-> token_info]

BondingCurveUpdated(bonding_curve, data) ==
    [type |-> "BondingCurveUpdated", bonding_curve |-> bonding_curve,
     data |-> data]

BuyTriggered(token_info, market_cap, buy_amount) ==
    [type |-> "BuyTriggered", token_info |-> token_info,
     market_cap |-> market_cap, buy_amount |-> buy_amount]

ConnectionStatusChanged(connected) ==
    [type |-> "ConnectionStatusChanged", connected |-> connected]

\* --------------------------------------------------- stream update handlers
\* handle_update that sends a status event for a ping and nothing for any
\* other update.
handle_update_PublishPing(update) ==
    IF update.kind = "ping"
    THEN <<ConnectionStatusChanged(TRUE)>>
    ELSE <<>>

\* common/stream.rs handle_update with handle_transaction and
\* handle_account_update: the events sent for one inbound update.  Every
\* path returns Ok(()), so the stream loop goes on to the next update.
\* `data` of an account is what try_from_slice_unchecked makes of the bytes:
\* a BondingCurveAccount or nothing.
handle_update(update) ==
    IF update.kind = "transaction"
    THEN IF update.transaction = <<>> THEN <<>>
         ELSE LET transaction_info == update.transaction[1]
              IN  IF transaction_info.meta = <<>> THEN <<>>
                  ELSE IF transaction_info.meta[1].err THEN <<>>
                  ELSE IF ~is_create_transaction(transaction_info) THEN <<>>
                  ELSE LET token_info ==
                               parse_token_creation(transaction_info,
                                                    transaction_info.signature)
                       IN  IF token_info = <<>> THEN <<>>
                           ELSE <<TokenCreated(token_info[1])>>
    ELSE IF update.kind = "account"
    THEN IF update.account = <<>> THEN <<>>
         ELSE LET account_info == update.account[1]
                  pubkey == Pubkey_try_from(account_info.pubkey)
              IN  IF pubkey = <<>> THEN <<>>
                  ELSE IF account_info.data = <<>> THEN <<>>
                  ELSE <<BondingCurveUpdated(pubkey[1], account_info.data[1])>>
    ELSE <<>>

\* ------------------------------------------------------------ price fetcher
\* Outcomes of one CoinGecko request (fetch_fresh_price).
PriceFetches ==
    {[ok |-> FALSE, price |-> 0]} \cup {[ok |-> TRUE, price |-> p] : p \in Prices}

\* utils/price.rs get_sol_price_usd: the cached price while it is fresh,
\* otherwise a fresh one, stored on success.  `fresh` is whether the cached
\* entry is younger than cache_duration at the time of the call.
get_sol_price_usd(cache, fresh, fetched) ==
    IF cache # <<>> /\ fresh
    THEN [ok |-> TRUE, price |-> cache[1], cache |-> cache]
    ELSE IF fetched.ok
         THEN [ok |-> TRUE, price |-> fetched.price, cache |-> Some(fetched.price)]
         ELSE [ok |-> FALSE, price |-> 0, cache |-> cache]

\* utils/price.rs calculate_market_cap_usd, in units of 1e-9 USD.
calculate_market_cap_usd(sol_amount, cache, fresh, fetched) ==
    LET sol_price == get_sol_price_usd(cache, fresh, fetched)
    IN  IF sol_price.ok
        THEN [ok |-> TRUE, usd |-> sol_amount * sol_price.price,
              cache |-> sol_price.cache]
        ELSE [ok |-> FALSE, usd |-> 0, cache |-> sol_price.cache]

\* ------------------------------------------------------ transaction executor
\* Outcomes of one rpc_client.get_account call followed by decoding.
RpcFailed == [kind |-> "rpc_error", data |-> <<>>]
Undecodable == [kind |-> "undecodable", data |-> <<>>]
Account(data) == [kind |-> "account", data |-> Some(data)]

CurveReads ==
    {RpcFailed, Undecodable} \cup {Account(c) : c \in Curves}

\* fetch_bonding_curve_data: inter-attempt delays in ms, one read per entry.
delays_Two == <<0, 100>>
delays == <<0, 100, 200>>

\* The reads of one fetch, one per attempt.  Reads after the attempt that
\* returns are never issued, so they repeat the returning one.
ReadSchedules ==
    { reads \in [1..Len(delays) -> CurveReads] :
        \A i \in 1..Len(delays) : \A j \in 1..Len(delays) :
            (i < j /\ reads[i].kind # "rpc_error") => reads[j] = reads[i] }

RECURSIVE FetchAttempt(_, _)
FetchAttempt(reads, attempt) ==
    IF attempt > Len(delays)
    THEN Err("RpcError")
    ELSE LET read == reads[attempt]
         IN  IF read.kind = "account"
             THEN Ok(read.data[1])
             ELSE IF read.kind = "undecodable"
             THEN Err("SerializationError")
             ELSE IF attempt = Len(delays)
             THEN Err("RpcError")
             ELSE FetchAttempt(reads, attempt + 1)

\* utils/transaction.rs fetch_bonding_curve_data.
fetch_bonding_curve_data(reads) == FetchAttempt(reads, 1)

\* utils/transaction.rs fetch_global_account: one read, no retry.
GlobalReads == {"account", "undecodable", "rpc_error"}

fetch_global_account(read) ==
    IF read = "account" THEN Ok("global")
    ELSE IF read = "undecodable" THEN Err("SerializationError")
    ELSE Err("RpcError")

\* get_buy_price without the + 1 that rounds toward the pool.
get_buy_price_NoRounding(curve, sol_amount, overflow_checks) ==
    IF curve.complete THEN Err("BondingCurveComplete")
    ELSE IF sol_amount = 0 THEN Ok(0)
    ELSE LET n == curve.virtual_sol_reserves * curve.virtual_token_reserves
             i == curve.virtual_sol_reserves + sol_amount
             r == n \div i
             token_amount == AsU64(curve.virtual_token_reserves - r)
         IN  Ok(IF token_amount < curve.real_token_reserves
                THEN token_amount
                ELSE curve.real_token_reserves)

\* accounts/bonding_curve.rs get_buy_price.  The u128 subtraction
\* virtual_token_reserves - r panics when it underflows in a build with
\* overflow checks and wraps otherwise.
get_buy_price(curve, sol_amount, overflow_checks) ==
    IF curve.complete THEN Err("BondingCurveComplete")
    ELSE IF sol_amount = 0 THEN Ok(0)
    ELSE LET n == curve.virtual_sol_reserves * curve.virtual_token_reserves
             i == curve.virtual_sol_reserves + sol_amount
             r == (n \div i) + 1
             s == IF r <= curve.virtual_token_reserves
                  THEN curve.virtual_token_reserves - r
                  ELSE (U64Modulus * U64Modulus) + curve.virtual_token_reserves - r
             token_amount == AsU64(s)
         IN  IF r > curve.virtual_token_reserves /\ overflow_checks
             THEN Err("panic")
             ELSE Ok(IF token_amount < curve.real_token_reserves
                     THEN token_amount
                     ELSE curve.real_token_reserves)

\* get_sell_price with the zero-amount shortcut ahead of the completion check.
get_sell_price_ZeroFirst(curve, token_amount, fee_basis_points, overflow_checks) ==
    IF token_amount = 0 THEN Ok(0)
    ELSE IF curve.complete THEN Err("BondingCurveComplete")
    ELSE LET n == (token_amount * curve.virtual_sol_reserves)
                    \div (curve.virtual_token_reserves + token_amount)
             fee == (n * fee_basis_points) \div 10000
         IN  IF fee > n /\ overflow_checks
             THEN Err("panic")
             ELSE Ok(AsU64(IF fee > n
                           THEN (U64Modulus * U64Modulus) + n - fee
                           ELSE n - fee))

\* get_sell_price without the zero-amount shortcut: the quotient is computed
\* for every amount, and a zero divisor panics.
get_sell_price_NoZeroCheck(curve, token_amount, fee_basis_points, overflow_checks) ==
    IF curve.complete THEN Err("BondingCurveComplete")
    ELSE IF curve.virtual_token_reserves + token_amount = 0 THEN Err("panic")
    ELSE LET n == (token_amount * curve.virtual_sol_reserves)
                    \div (curve.virtual_token_reserves + token_amount)
             fee == (n * fee_basis_points) \div 10000
         IN  IF fee > n /\ overflow_checks
             THEN Err("panic")
             ELSE Ok(AsU64(IF fee > n
                           THEN (U64Modulus * U64Modulus) + n - fee
                           ELSE n - fee))

\* get_sell_price with the fee added to the proceeds instead of taken off.
get_sell_price_FeeOnTop(curve, token_amount, fee_basis_points, overflow_checks) ==
    IF curve.complete THEN Err("BondingCurveComplete")
    ELSE IF token_amount = 0 THEN Ok(0)
    ELSE LET n == (token_amount * curve.virtual_sol_reserves)
                    \div (curve.virtual_token_reserves + token_amount)
             fee == (n * fee_basis_points) \div 10000
         IN  Ok(AsU64(n + fee))

\* accounts/bonding_curve.rs get_sell_price.  Token and lamport amounts are
\* u64; the fee rate is a natural number of basis points.  The u128
\* subtraction n - fee panics when it underflows in a build with overflow
\* checks and wraps otherwise.
get_sell_price(curve, token_amount, fee_basis_points, overflow_checks) ==
    IF curve.complete THEN Err("BondingCurveComplete")
    ELSE IF token_amount = 0 THEN Ok(0)
    ELSE LET n == (token_amount * curve.virtual_sol_reserves)
                    \div (curve.virtual_token_reserves + token_amount)
             fee == (n * fee_basis_points) \div 10000
         IN  IF fee > n /\ overflow_checks
             THEN Err("panic")
             ELSE Ok(AsU64(IF fee > n
                           THEN (U64Modulus * U64Modulus) + n - fee
                           ELSE n - fee))

RECURSIVE BitLength(_)
BitLength(x) == IF x = 0 THEN 0 ELSE 1 + BitLength(x \div 2)

\* `x as f64` of a u64: the nearest value with MantissaBits significant
\* bits, ties to the even one.
AsF64(x) ==
    IF BitLength(x) <= MantissaBits
    THEN x
    ELSE LET unit == 2 ^ (BitLength(x) - MantissaBits)
             q == x \div unit
             rest == x % unit
             up == (2 * rest > unit) \/ (2 * rest = unit /\ q % 2 = 1)
         IN  (IF up THEN q + 1 ELSE q) * unit

\* The f64 (sold / supply) * 100.0, kept as the exact ratio of the two
\* converted operands (the percentage is 100 * numerator / denominator): the
\* rounding of the quotient and of the product is monotone, so it merges
\* neighbouring values and never reverses their order.
Percent(sold, supply) == [numerator |-> sold, denominator |-> supply]

\* accounts/bonding_curve.rs get_curve_progress.  The u64 subtraction
\* token_total_supply - real_token_reserves panics when it underflows in a
\* build with overflow checks and wraps otherwise.
get_curve_progress(curve, overflow_checks) ==
    IF curve.token_total_supply = 0
    THEN Ok(Percent(0, 1))
    ELSE IF curve.real_token_reserves > curve.token_total_supply
            /\ overflow_checks
    THEN Err("panic")
    ELSE LET tokens_sold ==
                 AsU64(U64Modulus + curve.token_total_supply
                         - curve.real_token_reserves)
         IN  Ok(Percent(AsF64(tokens_sold), AsF64(curve.token_total_supply)))

\* common/config.rs validate: the slippage setting it accepts.
ValidSlippage(max_slippage_bps) == max_slippage_bps <= 10000

\* utils/transaction.rs build_buy_transaction, line 109: max_sol_cost, in
\* u64 arithmetic.  The product sol_amount * max_slippage_bps and the sum
\* panic when they overflow in a build with overflow checks and wrap
\* otherwise.
max_sol_cost(sol_amount, max_slippage_bps, overflow_checks) ==
    LET product == sol_amount * max_slippage_bps
        sum == sol_amount + (AsU64(product) \div 10000)
    IN  IF overflow_checks /\ (product >= U64Modulus \/ sum >= U64Modulus)
        THEN Err("panic")
        ELSE Ok(AsU64(sum))

\* common/config.rs Config: the default, with the priority fee and the
\* compute unit limit as set from the environment.
Config(priority_fee_sol, compute_unit_limit) ==
    [market_cap_threshold_usd |-> market_cap_threshold_usd,
     max_slippage_bps |-> 500,
     buy_amount_sol |-> buy_amount_sol,
     priority_fee_sol |-> priority_fee_sol,
     compute_unit_limit |-> compute_unit_limit]

\* common/config.rs validate.
validate(config) ==
    IF config.market_cap_threshold_usd <= 0 THEN Err("InvalidConfig")
    ELSE IF config.max_slippage_bps > 10000 THEN Err("InvalidConfig")
    ELSE IF config.buy_amount_sol = 0 THEN Err("InvalidConfig")
    ELSE IF config.priority_fee_sol = 0 THEN Err("InvalidConfig")
    ELSE Ok(TRUE)

\* priority_fee_sol * 1_000_000 exceeds the u64 range.
FeeProductOverflows(config) ==
    config.priority_fee_sol > (U64Modulus - 1) \div 1000000

\* utils/transaction.rs build_buy_transaction, lines 126-127: the compute
\* unit price, in u64 arithmetic.  The product panics when it overflows in a
\* build with overflow checks and wraps otherwise (its low bits are those of
\* the product with 1_000_000 reduced to the word); the division panics on a
\* divisor of zero in every build.
priority_fee_microlamports(config, overflow_checks) ==
    IF overflow_checks /\ FeeProductOverflows(config)
    THEN Err("panic")
    ELSE IF config.compute_unit_limit = 0
    THEN Err("panic")
    ELSE Ok(AsU64(config.priority_fee_sol * (1000000 % U64Modulus))
              \div config.compute_unit_limit)

\* utils/transaction.rs build_buy_transaction: the expected token amount,
\* then the latest blockhash.
build_buy_transaction(curve, sol_amount, overflow_checks, blockhash_ok) ==
    LET expected_tokens == get_buy_price(curve, sol_amount, overflow_checks)
    IN  IF ~expected_tokens.ok THEN expected_tokens
        ELSE IF ~blockhash_ok THEN Err("RpcError")
        ELSE Ok("transaction")

\* The environment of one execute_buy call: the global-account read, the
\* curve reads, the blockhash request, the submission and the build profile.
BuyEnvironments ==
    [global : GlobalReads, reads : ReadSchedules, blockhash_ok : BOOLEAN,
     send_ok : BOOLEAN, overflow_checks : BOOLEAN]

\* utils/transaction.rs execute_buy: both fetches are joined, the global
\* result is unwrapped first; then build, then send.
execute_buy(token_info, sol_amount, env) ==
    LET global_result == fetch_global_account(env.global)
        bonding_result == fetch_bonding_curve_data(env.reads)
    IN  IF ~global_result.ok THEN Err(global_result.error)
        ELSE IF ~bonding_result.ok THEN Err(bonding_result.error)
        ELSE LET transaction ==
                   build_buy_transaction(bonding_result.value[1], sol_amount,
                                         env.overflow_checks, env.blockhash_ok)
             IN  IF ~transaction.ok THEN Err(transaction.error)
                 ELSE IF ~env.send_ok THEN Err("TransactionFailed")
                 ELSE Ok("signature")

\* -------------------------------------------------------------------- state
VARIABLES
    pc,                    \* where the process is: new, running, buying, ...
    wallet,                \* Sniper.wallet is Some
    test_mode_single_buy,
    has_bought_once,
    tracked_tokens,        \* HashMap mint -> TokenInfo
    bought_tokens,         \* HashSet of mints
    bonding_curve_cache,   \* HashMap curve address -> BondingCurveAccount
    queue,                 \* the unbounded event channel, oldest first
    cached_price,          \* PriceFetcher.cached_price
    buying,                \* the execute_buy call being awaited, if any
    stream,                \* where the StreamClient task is
    published,             \* chain updates published so far
    last_buy,              \* per mint, how its latest execute_buy ended
    late,                  \* per mint, an update for it was published after
                           \* its first execute_buy returned
    by_creation,           \* per mint, a TokenCreated handler has emitted a
                           \* BuyTriggered for it
    obs                    \* what the last handler saw and did (its log lines)

\* One call of TransactionExecutor::execute_buy, step by step.
VARIABLES
    buy_call,              \* the call: token, amount and what the RPC node
                           \* and the build will answer
    stage,                 \* where execute_buy is
    attempt,               \* reads of the curve account made so far
    slept,                 \* ms slept between those reads
    global_reads,          \* reads of the global account made so far
    global_result,         \* what fetch_global_account returned, if it has
    bonding_result,        \* what fetch_bonding_curve_data returned, if it has
    effects,               \* what was done with a transaction so far
    returned               \* what execute_buy returned, if it has

\* One call of a BondingCurveAccount price function.
VARIABLES
    price_call,            \* the function, the curve and the arguments
    price_result           \* what it returned, if it has

\* One call of a parser function.
VARIABLES
    parse_call,            \* the function, the transaction and the signature
    parse_result           \* what it returned, if it has

decision == <<tracked_tokens, bought_tokens, bonding_curve_cache, has_bought_once>>
setup == <<wallet, test_mode_single_buy>>
history == <<last_buy, late, by_creation>>
sniper == <<pc, wallet, test_mode_single_buy, has_bought_once, tracked_tokens,
            bought_tokens, bonding_curve_cache, queue, cached_price, buying,
            stream, published, last_buy, late, by_creation, obs>>
executor == <<buy_call, stage, attempt, slept, global_reads, global_result,
              bonding_result, effects, returned>>
pricing == <<price_call, price_result>>
parsing == <<parse_call, parse_result>>
library == <<executor, pricing, parsing>>
vars == <<sniper, library>>

EmptyMap == [x \in {} |-> 0]
Insert(map, key, value) ==
    [x \in (DOMAIN map) \cup {key} |-> IF x = key THEN value ELSE map[x]]
Remove(map, key) == [x \in (DOMAIN map) \ {key} |-> map[x]]

Obs(handler, path, token, price, emitted) ==
    [handler |-> handler, path |-> path, token |-> token, price |-> price,
     emitted |-> emitted]

\* The price conversion as a handler sees it.
Seen(market_cap_usd) == <<[ok |-> market_cap_usd.ok, usd |-> market_cap_usd.usd]>>

\* No call of the executor is being followed.
ExecutorIdle ==
    /\ buy_call = <<>>
    /\ stage = "idle"
    /\ attempt = 0
    /\ slept = 0
    /\ global_reads = 0
    /\ global_result = <<>>
    /\ bonding_result = <<>>
    /\ effects = {}
    /\ returned = <<>>

\* No call of a price function is being followed.
PricingIdle ==
    /\ price_call = <<>>
    /\ price_result = <<>>

ParsingIdle ==
    /\ parse_call = <<>>
    /\ parse_result = <<>>

Idle == ExecutorIdle /\ PricingIdle /\ ParsingIdle

\* Sniper::new.
Constructed ==
    /\ pc = "new"
    /\ wallet = FALSE
    /\ test_mode_single_buy = FALSE
    /\ has_bought_once = FALSE
    /\ tracked_tokens = EmptyMap
    /\ bought_tokens = {}
    /\ bonding_curve_cache = EmptyMap
    /\ queue = <<>>
    /\ cached_price = <<>>
    /\ buying = <<>>
    /\ stream = "unspawned"
    /\ published = 0
    /\ last_buy = [m \in Mints |-> "none"]
    /\ late = [m \in Mints |-> FALSE]
    /\ by_creation = [m \in Mints |-> FALSE]
    /\ obs = Obs("new", "", <<>>, <<>>, <<>>)

Init == Idle /\ Constructed

\* ------------------------------------------------------------------ startup
set_wallet ==
    /\ pc = "new"
    /\ ~wallet
    /\ wallet' = TRUE
    /\ UNCHANGED <<library, pc, test_mode_single_buy, decision, queue, cached_price,
                   buying, stream, published, history, obs>>

enable_test_mode ==
    /\ pc = "new"
    /\ ~test_mode_single_buy
    /\ test_mode_single_buy' = TRUE
    /\ UNCHANGED <<library, pc, wallet, decision, queue, cached_price, buying, stream,
                   published, history, obs>>

\* Sniper::start: no wallet is an error; otherwise warm the price cache,
\* spawn the stream task and enter process_events.
start ==
    /\ pc = "new"
    /\ IF ~wallet
       THEN /\ pc' = "stopped"
            /\ UNCHANGED <<cached_price, stream>>
       ELSE /\ cached_price' \in
                 {get_sol_price_usd(cached_price, TRUE, fetched).cache :
                    fetched \in PriceFetches}
            /\ stream' = "connecting"
            /\ pc' = "running"
    /\ obs' = Obs("start", "", <<>>, <<>>, <<>>)
    /\ UNCHANGED <<library, setup, decision, queue, buying, published, history>>

\* -------------------------------------------------------------- stream task
\* common/stream.rs StreamClient::start and its handlers.  The task runs
\* beside the decision loop and only sends on the channel.
Alive == pc \in {"running", "buying"}

Send(event) == queue' = Append(queue, event)

\* An update about mint m published after m's first execute_buy returned.
Late(mints) ==
    [m \in Mints |-> late[m] \/ (m \in mints /\ last_buy[m] # "none")]

stream_connect ==
    /\ Alive /\ stream = "connecting"
    /\ stream' = "connected"
    /\ Send(ConnectionStatusChanged(TRUE))
    /\ UNCHANGED <<library, pc, setup, decision, cached_price, buying, published,
                   history, obs>>


\* common/stream.rs create_subscription_request: the accounts filter, by
\* owner program and by account data size.
create_subscription_request ==
    [owner |-> "PUMPFUN_PROGRAM_ID",
     datasize |-> 8 + 32 + 32 + 8 + 8 + 8 + 8 + 1]

stream_subscribe ==
    /\ Alive /\ stream = "connected"
    /\ stream' = "subscribed"
    /\ UNCHANGED <<library, pc, setup, decision, queue, cached_price, buying,
                   published, history, obs>>


\* handle_transaction: a creation that is detected and parsed.
handle_transaction ==
    /\ Alive /\ stream = "subscribed" /\ published < MaxEvents
    /\ \E token_info \in ParsedTokens :
         /\ Send(TokenCreated(token_info))
         /\ late' = Late({token_info.mint})
    /\ published' = published + 1
    /\ UNCHANGED <<library, pc, setup, decision, cached_price, buying, stream,
                   last_buy, by_creation, obs>>

\* handle_account_update: an account that decodes as a bonding curve.
handle_account_update ==
    /\ Alive /\ stream = "subscribed" /\ published < MaxEvents
    /\ \E pubkey \in CurveAddresses, bonding_curve_data \in UpdateCurves :
         /\ Send(BondingCurveUpdated(pubkey, bonding_curve_data))
         /\ late' = Late({m \in Mints : derive_bonding_curve_pda(m).value[1] = pubkey})
    /\ published' = published + 1
    /\ UNCHANGED <<library, pc, setup, decision, cached_price, buying, stream,
                   last_buy, by_creation, obs>>


\* ------------------------------------------------------------ decision loop
\* The receive without the wait for the handler in progress.
Receiving_WhileBuying(type) ==
    /\ Alive
    /\ queue # <<>>
    /\ Head(queue).type = type

\* process_events receives the oldest event and awaits its handler.
Receiving(type) ==
    /\ pc = "running"
    /\ queue # <<>>
    /\ Head(queue).type = type

\* The instant path without its bought-set check.
InstantBuy_NoBoughtCheck(market_cap_usd, token_info, market_data) ==
    IF market_cap_usd.ok /\ market_cap_usd.usd >= market_cap_threshold_usd
    THEN IF test_mode_single_buy /\ has_bought_once
         THEN <<>>
         ELSE <<BuyTriggered(token_info, market_data.current_market_cap_sol,
                             buy_amount_sol)>>
    ELSE <<>>

\* The instant path with > for >=.
InstantBuy_StrictThreshold(market_cap_usd, token_info, market_data) ==
    IF /\ market_cap_usd.ok
       /\ market_cap_usd.usd > market_cap_threshold_usd
       /\ token_info.mint \notin bought_tokens
       /\ ~(test_mode_single_buy /\ has_bought_once)
    THEN <<BuyTriggered(token_info, market_data.current_market_cap_sol,
                        buy_amount_sol)>>
    ELSE <<>>

\* Threshold logic of the instant path (handle_bonding_curve_update).
InstantBuy(market_cap_usd, token_info, market_data) ==
    IF market_cap_usd.ok
    THEN IF /\ market_cap_usd.usd >= market_cap_threshold_usd
            /\ token_info.mint \notin bought_tokens
         THEN IF test_mode_single_buy /\ has_bought_once
              THEN <<>>
              ELSE <<BuyTriggered(token_info, market_data.current_market_cap_sol,
                                  buy_amount_sol)>>
         ELSE <<>>
    ELSE <<>>

\* The cached path without its bought-set check.
CachedBuy_NoBoughtCheck(market_cap_usd, token_info, market_data) ==
    IF market_cap_usd.ok /\ market_cap_usd.usd >= market_cap_threshold_usd
    THEN IF test_mode_single_buy /\ has_bought_once
         THEN <<>>
         ELSE <<BuyTriggered(token_info, market_data.current_market_cap_sol,
                             buy_amount_sol)>>
    ELSE <<>>

\* Threshold logic of the cached path (check_market_cap, cached data first).
CachedBuy(market_cap_usd, token_info, market_data) ==
    IF market_cap_usd.ok
    THEN IF market_cap_usd.usd >= market_cap_threshold_usd
         THEN IF token_info.mint \notin bought_tokens
              THEN IF test_mode_single_buy /\ has_bought_once
                   THEN <<>>
                   ELSE <<BuyTriggered(token_info,
                                       market_data.current_market_cap_sol,
                                       buy_amount_sol)>>
              ELSE <<>>
         ELSE <<>>
    ELSE <<>>

\* The fallback path with > for >=.
FastBuy_StrictThreshold(market_cap_usd, token_info, market_data) ==
    IF /\ market_cap_usd.ok
       /\ market_cap_usd.usd > market_cap_threshold_usd
       /\ token_info.mint \notin bought_tokens
       /\ ~(test_mode_single_buy /\ has_bought_once)
    THEN <<BuyTriggered(token_info, market_data.current_market_cap_sol,
                        buy_amount_sol)>>
    ELSE <<>>

\* The fallback path buying when the price conversion failed.
FastBuy_BuyOnPriceError(market_cap_usd, token_info, market_data) ==
    IF /\ (~market_cap_usd.ok \/ market_cap_usd.usd >= market_cap_threshold_usd)
       /\ token_info.mint \notin bought_tokens
       /\ ~(test_mode_single_buy /\ has_bought_once)
    THEN <<BuyTriggered(token_info, market_data.current_market_cap_sol,
                        buy_amount_sol)>>
    ELSE <<>>

\* Threshold logic of the fallback path (check_market_cap, RPC fallback).
FastBuy(market_cap_usd, token_info, market_data) ==
    IF market_cap_usd.ok
    THEN IF market_cap_usd.usd >= market_cap_threshold_usd
         THEN IF token_info.mint \notin bought_tokens
              THEN IF test_mode_single_buy /\ has_bought_once
                   THEN <<>>
                   ELSE <<BuyTriggered(token_info,
                                       market_data.current_market_cap_sol,
                                       buy_amount_sol)>>
              ELSE <<>>
         ELSE <<>>
    ELSE <<>>

\* The handler's sends put ahead of the events already waiting.
Emit_Front(emitted) == queue' = emitted \o Tail(queue)

\* The handler's sends go to the back of the channel it reads from.
Emit(emitted) == queue' = Tail(queue) \o emitted

\* What calculate_market_cap_usd can return now, over the age of the cached
\* price and the outcome of a fresh request.
MarketCapUsd(sol_amount) ==
    {calculate_market_cap_usd(sol_amount, cached_price, fresh, fetched) :
       fresh \in BOOLEAN, fetched \in PriceFetches}

\* What fetch_bonding_curve_data can return, over the reads it is served.
CurveFetches == {fetch_bonding_curve_data(reads) : reads \in ReadSchedules}

\* A TokenCreated handler for mint m has sent `emitted`.
ByCreation(m, emitted) ==
    by_creation' = [by_creation EXCEPT ![m] = @ \/ emitted # <<>>]

\* check_market_cap(token_info), after handle_token_creation has inserted
\* the token.
check_market_cap(token_info) ==
    IF token_info.bonding_curve \in DOMAIN bonding_curve_cache
    THEN LET cached_data == bonding_curve_cache[token_info.bonding_curve]
             market_data == MarketData(token_info, cached_data)
         IN  \E market_cap_usd \in MarketCapUsd(market_data.current_market_cap_sol) :
               LET emitted == CachedBuy(market_cap_usd, token_info, market_data)
               IN  /\ cached_price' = market_cap_usd.cache
                   /\ Emit(emitted)
                   /\ ByCreation(token_info.mint, emitted)
                   /\ obs' = Obs("TokenCreated", "cached", Some(token_info),
                                 Seen(market_cap_usd), emitted)
    ELSE \E fetch \in CurveFetches :
           IF fetch.ok
           THEN LET market_data == MarketData(token_info, fetch.value[1])
                IN  \E market_cap_usd \in
                          MarketCapUsd(market_data.current_market_cap_sol) :
                      LET emitted == FastBuy(market_cap_usd, token_info, market_data)
                      IN  /\ cached_price' = market_cap_usd.cache
                          /\ Emit(emitted)
                          /\ ByCreation(token_info.mint, emitted)
                          /\ obs' = Obs("TokenCreated", "fallback",
                                        Some(token_info), Seen(market_cap_usd),
                                        emitted)
           ELSE /\ cached_price' = cached_price
                /\ Emit(<<>>)
                /\ ByCreation(token_info.mint, <<>>)
                /\ obs' = Obs("TokenCreated", "fallback", Some(token_info),
                              <<>>, <<>>)

\* The tracked map left as it is.
TrackedAfterCreation_NoInsert(token_info) == tracked_tokens

TrackedAfterCreation(token_info) ==
    Insert(tracked_tokens, token_info.mint, token_info)

handle_token_creation ==
    /\ Receiving("TokenCreated")
    /\ LET token_info == Head(queue).token_info
       IN  /\ tracked_tokens' = TrackedAfterCreation(token_info)
           /\ check_market_cap(token_info)
    /\ UNCHANGED <<library, pc, setup, bought_tokens, bonding_curve_cache,
                   has_bought_once, buying, stream, published, last_buy, late>>

\* The cache keeping the first snapshot of an address.
CacheAfterUpdate_KeepFirst(bonding_curve, data) ==
    IF bonding_curve \in DOMAIN bonding_curve_cache
    THEN bonding_curve_cache
    ELSE Insert(bonding_curve_cache, bonding_curve, data)

CacheAfterUpdate(bonding_curve, data) ==
    Insert(bonding_curve_cache, bonding_curve, data)

\* The tracked tokens whose curve address is the updated one; the loop over
\* the map's values stops at the first, in the map's iteration order.
Matching(bonding_curve) ==
    {m \in DOMAIN tracked_tokens : tracked_tokens[m].bonding_curve = bonding_curve}

handle_bonding_curve_update ==
    /\ Receiving("BondingCurveUpdated")
    /\ LET bonding_curve == Head(queue).bonding_curve
           data == Head(queue).data
       IN  /\ bonding_curve_cache' = CacheAfterUpdate(bonding_curve, data)
           /\ IF Matching(bonding_curve) = {}
              THEN /\ Emit(<<>>)
                   /\ cached_price' = cached_price
                   /\ obs' = Obs("BondingCurveUpdated", "none", <<>>, <<>>, <<>>)
              ELSE \E m \in Matching(bonding_curve) :
                     LET token_info == tracked_tokens[m]
                         cached_data ==
                             CacheAfterUpdate(bonding_curve, data)[bonding_curve]
                         market_data == MarketData(token_info, cached_data)
                     IN  \E market_cap_usd \in
                               MarketCapUsd(market_data.current_market_cap_sol) :
                           LET emitted ==
                                   InstantBuy(market_cap_usd, token_info, market_data)
                           IN  /\ cached_price' = market_cap_usd.cache
                               /\ Emit(emitted)
                               /\ obs' = Obs("BondingCurveUpdated", "instant",
                                             Some(token_info),
                                             Seen(market_cap_usd), emitted)
    /\ UNCHANGED <<library, pc, setup, tracked_tokens, bought_tokens, has_bought_once,
                   buying, stream, published, history>>

\* The loop returning when it receives the connectivity-lost event.
handle_other_ReturnOnDisconnect ==
    /\ pc = "running"
    /\ queue # <<>>
    /\ Head(queue).type \notin {"TokenCreated", "BondingCurveUpdated", "BuyTriggered"}
    /\ Emit(<<>>)
    /\ pc' = IF Head(queue) = ConnectionStatusChanged(FALSE) THEN "stopped" ELSE pc
    /\ obs' = Obs(Head(queue).type, "none", <<>>, <<>>, <<>>)
    /\ UNCHANGED <<library, setup, decision, cached_price, buying, stream,
                   published, history>>

\* The other kinds sent back to the channel instead of being dropped.
handle_other_Requeue ==
    /\ pc = "running"
    /\ queue # <<>>
    /\ Head(queue).type \notin {"TokenCreated", "BondingCurveUpdated", "BuyTriggered"}
    /\ Emit(<<Head(queue)>>)
    /\ obs' = Obs(Head(queue).type, "none", <<>>, <<>>, <<>>)
    /\ UNCHANGED <<library, pc, setup, decision, cached_price, buying, stream,
                   published, history>>

\* handle_event: MarketCapUpdated and every kind under the wildcard arm.
handle_other ==
    /\ pc = "running"
    /\ queue # <<>>
    /\ Head(queue).type \notin {"TokenCreated", "BondingCurveUpdated", "BuyTriggered"}
    /\ Emit(<<>>)
    /\ obs' = Obs(Head(queue).type, "none", <<>>, <<>>, <<>>)
    /\ UNCHANGED <<library, pc, setup, decision, cached_price, buying, stream,
                   published, history>>

\* handle_buy_trigger: the first check, "Already bought ..., skipping".
AlreadyBought_OrBelowThreshold(mint_str) ==
    \/ mint_str \in bought_tokens
    \/ LET bonding_curve == derive_bonding_curve_pda(mint_str).value[1]
       IN  /\ bonding_curve \in DOMAIN bonding_curve_cache
           /\ \A p \in Prices :
                get_market_cap_sol(bonding_curve_cache[bonding_curve]) * p
                  < market_cap_threshold_usd
AlreadyBought_Never(mint_str) == FALSE
AlreadyBought(mint_str) == mint_str \in bought_tokens

\* handle_buy_trigger, "prevents double buys": the insert before the call.
BoughtBeforeBuy_NoInsert(mint_str) == bought_tokens
BoughtBeforeBuy(mint_str) == bought_tokens \cup {mint_str}

\* handle_buy_trigger up to the await of execute_buy.
handle_buy_trigger ==
    /\ Receiving("BuyTriggered")
    /\ LET token_info == Head(queue).token_info
           buy_amount == Head(queue).buy_amount
           mint_str == token_info.mint
       IN  IF AlreadyBought(mint_str)
           THEN /\ obs' = Obs("BuyTriggered", "already_bought", Some(token_info),
                              <<>>, <<>>)
                /\ UNCHANGED <<pc, bought_tokens, buying>>
           ELSE IF test_mode_single_buy /\ has_bought_once
           THEN /\ obs' = Obs("BuyTriggered", "test_mode_skip", Some(token_info),
                              <<>>, <<>>)
                /\ UNCHANGED <<pc, bought_tokens, buying>>
           ELSE IF wallet
           THEN /\ bought_tokens' = BoughtBeforeBuy(mint_str)
                /\ pc' = "buying"
                /\ buying' = Some([token_info |-> token_info,
                                   buy_amount |-> buy_amount])
                /\ obs' = Obs("BuyTriggered", "executing", Some(token_info),
                              <<>>, <<>>)
           ELSE /\ bought_tokens' = BoughtBeforeBuy(mint_str) \ {mint_str}
                /\ obs' = Obs("BuyTriggered", "no_wallet", Some(token_info),
                              <<>>, <<>>)
                /\ UNCHANGED <<pc, buying>>
    /\ queue' = Tail(queue)
    /\ UNCHANGED <<library, setup, tracked_tokens, bonding_curve_cache, has_bought_once,
                   cached_price, stream, published, history>>

\* handle_buy_trigger, Ok(signature) arm.
TrackedAfterSuccess(mint_str) == Remove(tracked_tokens, mint_str)
BoughtAfterSuccess_Rollback(mint_str) == bought_tokens \ {mint_str}
BoughtAfterSuccess(mint_str) == bought_tokens
PcAfterSuccess_NeverExit == "running"
PcAfterSuccess == IF test_mode_single_buy THEN "exited" ELSE "running"

\* handle_buy_trigger, Err(e) arm: "allow retry".
BoughtAfterFailure_Clear(mint_str) == {}
BoughtAfterFailure_Keep(mint_str) == bought_tokens
BoughtAfterFailure(mint_str) == bought_tokens \ {mint_str}

\* What execute_buy can return, over the environments of the call.
BuyResults(token_info, sol_amount) ==
    {execute_buy(token_info, sol_amount, env) : env \in BuyEnvironments}

\* handle_buy_trigger from the return of execute_buy to its end.
execute_buy_returns ==
    /\ pc = "buying"
    /\ \E result \in BuyResults(buying[1].token_info, buying[1].buy_amount) :
         LET token_info == buying[1].token_info
             mint_str == token_info.mint
             outcome == IF result.ok THEN "Ok" ELSE result.error
         IN  /\ IF result.ok
                THEN /\ has_bought_once' = TRUE
                     /\ tracked_tokens' = TrackedAfterSuccess(mint_str)
                     /\ bought_tokens' = BoughtAfterSuccess(mint_str)
                     /\ pc' = PcAfterSuccess
                ELSE IF result.error = "panic"
                THEN /\ pc' = "panicked"
                     /\ UNCHANGED <<has_bought_once, tracked_tokens, bought_tokens>>
                ELSE /\ bought_tokens' = BoughtAfterFailure(mint_str)
                     /\ pc' = "running"
                     /\ UNCHANGED <<has_bought_once, tracked_tokens>>
             /\ last_buy' = [last_buy EXCEPT ![mint_str] = outcome]
             /\ obs' = Obs("execute_buy", outcome, Some(token_info), <<>>, <<>>)
    /\ buying' = <<>>
    /\ UNCHANGED <<library, setup, bonding_curve_cache, queue, cached_price, stream,
                   published, late, by_creation>>

\* ------------------------------------------------------------ specification
Next ==
    \/ set_wallet
    \/ enable_test_mode
    \/ start
    \/ stream_connect
    \/ stream_subscribe
    \/ handle_transaction
    \/ handle_account_update
    \/ handle_token_creation
    \/ handle_bonding_curve_update
    \/ handle_other
    \/ handle_buy_trigger
    \/ execute_buy_returns

Spec == Init /\ [][Next]_vars

\* ------------------------------------------- the stream task's ways to end
\* StreamClient::start: building the client or connecting fails.
stream_connect_failed ==
    /\ Alive /\ stream = "connecting"
    /\ stream' = "failed"
    /\ UNCHANGED <<library, pc, setup, decision, queue, cached_price, buying,
                   published, history, obs>>

\* StreamClient::start: opening the subscription or sending the request fails.
stream_subscribe_failed ==
    /\ Alive /\ stream = "connected"
    /\ stream' = "failed"
    /\ UNCHANGED <<library, pc, setup, decision, queue, cached_price, buying,
                   published, history, obs>>

\* A stream error that sends the status and goes back to connecting.
stream_error_Reconnect ==
    /\ Alive /\ stream = "subscribed"
    /\ Send(ConnectionStatusChanged(FALSE))
    /\ stream' = "connecting"
    /\ UNCHANGED <<library, pc, setup, decision, cached_price, buying,
                   published, history, obs>>

\* StreamClient::start, Err(e) from the stream: send the status, then sleep.
stream_error ==
    /\ Alive /\ stream = "subscribed"
    /\ Send(ConnectionStatusChanged(FALSE))
    /\ stream' = "backoff"
    /\ UNCHANGED <<library, pc, setup, decision, cached_price, buying,
                   published, history, obs>>

\* StreamClient::start: the 5000 ms sleep is over, return GrpcConnectionFailed.
stream_backoff_elapsed ==
    /\ Alive /\ stream = "backoff"
    /\ stream' = "failed"
    /\ UNCHANGED <<library, pc, setup, decision, queue, cached_price, buying,
                   published, history, obs>>

\* StreamClient::start: the stream ends (next() is None), return Ok(()).
stream_end ==
    /\ Alive /\ stream = "subscribed"
    /\ stream' = "ended"
    /\ UNCHANGED <<library, pc, setup, decision, queue, cached_price, buying,
                   published, history, obs>>

\* The stream task from its spawn to its end, with the decision loop not
\* scheduled: the channel keeps everything the task has sent.
NextStream ==
    \/ set_wallet
    \/ start
    \/ stream_connect
    \/ stream_connect_failed
    \/ stream_subscribe
    \/ stream_subscribe_failed
    \/ handle_transaction
    \/ handle_account_update
    \/ stream_error
    \/ stream_backoff_elapsed
    \/ stream_end

SpecStream == Init /\ [][NextStream]_vars

\* The stream task has returned: StreamClient::start is over, with or without
\* an error.
Terminated == stream \in {"failed", "ended"}

\* The stream task from its spawn to its end, and then the decision loop on
\* what the channel holds: the loop is first scheduled when the task is over.
NextDrain ==
    \/ set_wallet
    \/ enable_test_mode
    \/ start
    \/ stream_connect
    \/ stream_connect_failed
    \/ stream_subscribe
    \/ stream_subscribe_failed
    \/ handle_transaction
    \/ handle_account_update
    \/ stream_error
    \/ stream_backoff_elapsed
    \/ stream_end
    \/ Terminated /\ handle_token_creation
    \/ Terminated /\ handle_bonding_curve_update
    \/ Terminated /\ handle_other
    \/ Terminated /\ handle_buy_trigger
    \/ Terminated /\ execute_buy_returns

SpecDrain == Init /\ [][NextDrain]_vars

\* ------------------------------------------------- execute_buy step by step
\* The calls of execute_buy the decision loop can make.
BuyCalls ==
    [token_info : ParsedTokens, sol_amount : {buy_amount_sol},
     env : BuyEnvironments]

\* execute_buy is entered; tokio::join! starts both fetches.
InitExec ==
    /\ pc = "buying"
    /\ wallet = TRUE
    /\ test_mode_single_buy = FALSE
    /\ has_bought_once = FALSE
    /\ tracked_tokens = EmptyMap
    /\ bought_tokens = {}
    /\ bonding_curve_cache = EmptyMap
    /\ queue = <<>>
    /\ cached_price = <<>>
    /\ buying = <<>>
    /\ stream = "connecting"
    /\ published = 0
    /\ last_buy = [m \in Mints |-> "none"]
    /\ late = [m \in Mints |-> FALSE]
    /\ by_creation = [m \in Mints |-> FALSE]
    /\ obs = Obs("BuyTriggered", "executing", <<>>, <<>>, <<>>)
    /\ buy_call \in {Some(c) : c \in BuyCalls}
    /\ stage = "fetching"
    /\ attempt = 0
    /\ slept = 0
    /\ global_reads = 0
    /\ global_result = <<>>
    /\ bonding_result = <<>>
    /\ effects = {}
    /\ returned = <<>>
    /\ PricingIdle
    /\ ParsingIdle

\* fetch_global_account: its one rpc_client.get_account call and the decode.
fetch_global_account_read ==
    /\ stage = "fetching" /\ global_result = <<>>
    /\ global_reads' = global_reads + 1
    /\ global_result' = Some(fetch_global_account(buy_call[1].env.global))
    /\ UNCHANGED <<sniper, pricing, parsing, buy_call, stage, attempt, slept,
                   bonding_result, effects, returned>>

\* fetch_bonding_curve_data: one turn of its loop over delays.
fetch_bonding_curve_attempt ==
    /\ stage = "fetching" /\ bonding_result = <<>>
    /\ attempt < Len(delays)
    /\ attempt' = attempt + 1
    /\ slept' = slept + delays[attempt + 1]
    /\ LET read == buy_call[1].env.reads[attempt + 1]
       IN  bonding_result' =
             IF read.kind = "account" THEN Some(Ok(read.data[1]))
             ELSE IF read.kind = "undecodable"
             THEN Some(Err("SerializationError"))
             ELSE IF attempt + 1 = Len(delays) THEN Some(Err("RpcError"))
             ELSE <<>>
    /\ UNCHANGED <<sniper, pricing, parsing, buy_call, stage, global_reads,
                   global_result, effects, returned>>

\* The unwrapping without the check of the global result.
unwrap_fetches_IgnoreGlobal ==
    /\ stage = "fetching" /\ global_result # <<>> /\ bonding_result # <<>>
    /\ IF ~bonding_result[1].ok
       THEN /\ returned' = Some(Err(bonding_result[1].error))
            /\ stage' = "returned"
       ELSE /\ returned' = returned
            /\ stage' = "fetched"
    /\ UNCHANGED <<sniper, pricing, parsing, buy_call, attempt, slept, global_reads,
                   global_result, bonding_result, effects>>

\* execute_buy after the join: global_result?, then bonding_result?.
unwrap_fetches ==
    /\ stage = "fetching" /\ global_result # <<>> /\ bonding_result # <<>>
    /\ IF ~global_result[1].ok
       THEN /\ returned' = Some(Err(global_result[1].error))
            /\ stage' = "returned"
       ELSE IF ~bonding_result[1].ok
       THEN /\ returned' = Some(Err(bonding_result[1].error))
            /\ stage' = "returned"
       ELSE /\ returned' = returned
            /\ stage' = "fetched"
    /\ UNCHANGED <<sniper, pricing, parsing, buy_call, attempt, slept, global_reads,
                   global_result, bonding_result, effects>>

\* execute_buy: build_buy_transaction(...)?, which also signs.
build_transaction ==
    /\ stage = "fetched"
    /\ LET transaction ==
               build_buy_transaction(bonding_result[1].value[1],
                                     buy_call[1].sol_amount,
                                     buy_call[1].env.overflow_checks,
                                     buy_call[1].env.blockhash_ok)
       IN  IF transaction.ok
           THEN /\ effects' = effects \cup {"built", "signed"}
                /\ stage' = "built"
                /\ returned' = returned
           ELSE IF transaction.error = "panic"
           THEN /\ stage' = "panicked"
                /\ UNCHANGED <<effects, returned>>
           ELSE /\ stage' = "returned"
                /\ returned' = Some(Err(transaction.error))
                /\ effects' = effects
    /\ UNCHANGED <<sniper, pricing, parsing, buy_call, attempt, slept, global_reads,
                   global_result, bonding_result>>

\* execute_buy: send_transaction_with_config, then the return.
send_transaction ==
    /\ stage = "built"
    /\ effects' = effects \cup {"submitted"}
    /\ returned' = IF buy_call[1].env.send_ok
                   THEN Some(Ok("signature"))
                   ELSE Some(Err("TransactionFailed"))
    /\ stage' = "returned"
    /\ UNCHANGED <<sniper, pricing, parsing, buy_call, attempt, slept, global_reads,
                   global_result, bonding_result>>

NextExec ==
    \/ fetch_global_account_read
    \/ fetch_bonding_curve_attempt
    \/ unwrap_fetches
    \/ build_transaction
    \/ send_transaction

SpecExec == InitExec /\ [][NextExec]_vars

\* ------------------------------------------------ price functions, one call
\* The curves and arguments the price functions are called with.
PriceCurves ==
    {BondingCurveAccount(vt, vs, rt, MaxReserve, complete) :
       vt \in 0..MaxReserve, vs \in 0..MaxReserve, rt \in 0..MaxReserve,
       complete \in BOOLEAN}

FeeRates == {0, 5000, 10000, 20000}

PriceCalls ==
    [function : {"get_buy_price"}, curve : PriceCurves, amount : 0..MaxAmount,
     fee_basis_points : {0}, overflow_checks : BOOLEAN]
    \cup
    [function : {"get_sell_price"}, curve : PriceCurves, amount : 0..MaxAmount,
     fee_basis_points : FeeRates, overflow_checks : BOOLEAN]

InitPrice ==
    /\ Constructed
    /\ ExecutorIdle
    /\ ParsingIdle
    /\ price_call \in {Some(c) : c \in PriceCalls}
    /\ price_result = <<>>

call_get_buy_price ==
    /\ price_result = <<>>
    /\ price_call[1].function = "get_buy_price"
    /\ price_result' = Some(get_buy_price(price_call[1].curve,
                                          price_call[1].amount,
                                          price_call[1].overflow_checks))
    /\ UNCHANGED <<sniper, executor, parsing, price_call>>

call_get_sell_price ==
    /\ price_result = <<>>
    /\ price_call[1].function = "get_sell_price"
    /\ price_result' = Some(get_sell_price(price_call[1].curve,
                                           price_call[1].amount,
                                           price_call[1].fee_basis_points,
                                           price_call[1].overflow_checks))
    /\ UNCHANGED <<sniper, executor, parsing, price_call>>

NextPrice ==
    \/ call_get_buy_price
    \/ call_get_sell_price

SpecPrice == InitPrice /\ [][NextPrice]_vars

\* --------------------------------------- curve views and cost limit, one call
\* Field values from both ends of the u64 range.
WideValues == {0, 1, 2, U64Modulus - 2, U64Modulus - 1}

ViewCurves ==
    {BondingCurveAccount(vt, vs, rt, supply, FALSE) :
       vt \in WideValues, vs \in WideValues, rt \in WideValues,
       supply \in WideValues}

\* Slippage settings in basis points, one of them rejected by validate.
SlippageSettings == {0, 1, 5, 500, 10000, 20000}

\* Compute unit limits, a u32: both ends of its range and the default's
\* neighbourhood.
ComputeUnitLimits == {0, 1, 2, 2 ^ (WordBits \div 2) - 1}

ViewCalls ==
    [function : {"get_market_cap_sol", "get_curve_progress"},
     curve : ViewCurves, amount : {0}, fee_basis_points : {0},
     overflow_checks : BOOLEAN]
    \cup
    [function : {"max_sol_cost"}, curve : {LowCurve}, amount : WideValues,
     fee_basis_points : SlippageSettings, overflow_checks : BOOLEAN]
    \cup
    [function : {"priority_fee_microlamports"}, curve : {LowCurve},
     amount : WideValues, fee_basis_points : ComputeUnitLimits,
     overflow_checks : BOOLEAN]

InitView ==
    /\ Constructed
    /\ ExecutorIdle
    /\ ParsingIdle
    /\ price_call \in {Some(c) : c \in ViewCalls}
    /\ price_result = <<>>

call_get_market_cap_sol ==
    /\ price_result = <<>>
    /\ price_call[1].function = "get_market_cap_sol"
    /\ price_result' = Some(get_market_cap_sol(price_call[1].curve))
    /\ UNCHANGED <<sniper, executor, parsing, price_call>>

call_get_curve_progress ==
    /\ price_result = <<>>
    /\ price_call[1].function = "get_curve_progress"
    /\ price_result' = Some(get_curve_progress(price_call[1].curve,
                                               price_call[1].overflow_checks))
    /\ UNCHANGED <<sniper, executor, parsing, price_call>>

\* The slippage setting is the call's fee_basis_points field.
call_max_sol_cost ==
    /\ price_result = <<>>
    /\ price_call[1].function = "max_sol_cost"
    /\ price_result' = Some(max_sol_cost(price_call[1].amount,
                                         price_call[1].fee_basis_points,
                                         price_call[1].overflow_checks))
    /\ UNCHANGED <<sniper, executor, parsing, price_call>>

\* Sniper::new validates the configuration; build_buy_transaction then
\* computes the fee.  The priority fee is the call's amount field, the compute
\* unit limit its fee_basis_points field.
call_priority_fee_microlamports ==
    /\ price_result = <<>>
    /\ price_call[1].function = "priority_fee_microlamports"
    /\ LET config == Config(price_call[1].amount, price_call[1].fee_basis_points)
       IN  price_result' =
             Some(IF validate(config).ok
                  THEN priority_fee_microlamports(config,
                                                  price_call[1].overflow_checks)
                  ELSE validate(config))
    /\ UNCHANGED <<sniper, executor, parsing, price_call>>

NextView ==
    \/ call_get_market_cap_sol
    \/ call_get_curve_progress
    \/ call_max_sol_cost
    \/ call_priority_fee_microlamports

SpecView == InitView /\ [][NextView]_vars

\* ---------------------------------------- parser and stream handlers, one call
\* Instruction payloads: one byte short of a discriminator, the bare
\* discriminator, a creation that decodes, one with a byte left over, and a
\* buy.
Payloads ==
    {SubSeq(CREATE_DISCRIMINATOR, 1, 7),
     CREATE_DISCRIMINATOR,
     CreatePayload,
     CreatePayload \o <<0>>,
     BUY_DISCRIMINATOR \o <<1, 0, 0, 0, 0, 0, 0, 0, 2, 0, 0, 0, 0, 0, 0, 0>>}

\* Account indices of an instruction.
AccountLists == {<<>>, <<0>>, <<1, 0>>, <<2>>}

\* Account-key tables: two mints; a mint without a curve address and a
\* key that is not 32 bytes long; no key.
KeyTables ==
    {<<KeyBytes("m1"), KeyBytes("m2")>>, <<KeyBytes("m3"), <<1, 2, 3>>>>, <<>>}

Instructions ==
    {CompiledInstruction(data, accounts) :
       data \in Payloads, accounts \in AccountLists}

InstructionLists ==
    UNION {[1..n -> Instructions] : n \in 0..MaxInstructions}

Transactions ==
    {NoTransaction, NoMessage}
      \cup {TransactionInfo(Message(instructions, account_keys)) :
               instructions \in InstructionLists, account_keys \in KeyTables}

\* Inbound updates: a transaction update without transaction, or with one
\* that has no meta, failed, or succeeded; an account update without
\* account, or with a key of 32 bytes or fewer and data that decodes or
\* does not; a ping; any other kind.
Updates ==
    {[kind |-> "transaction", transaction |-> <<>>]}
      \cup {[kind |-> "transaction",
              transaction |-> Some([transaction |-> t.transaction, meta |-> meta,
                                    signature |-> "s1"])] :
               t \in Transactions,
               meta \in {<<>>, Some([err |-> TRUE]), Some([err |-> FALSE])}}
      \cup {[kind |-> "account", account |-> <<>>]}
      \cup {[kind |-> "account",
              account |-> Some([pubkey |-> pubkey, data |-> data])] :
               pubkey \in {KeyBytes("c1"), KeyBytes("c2"), <<1, 2, 3>>},
               data \in {<<>>} \cup {Some(c) : c \in UpdateCurves}}
      \cup {[kind |-> "ping"], [kind |-> "other"]}

ParseCalls ==
    [function : {"is_create_transaction", "parse_token_creation"},
     transaction : Transactions, signature : {"s1"}]
    \cup
    [function : {"handle_update"}, update : Updates]

InitParse ==
    /\ Constructed
    /\ ExecutorIdle
    /\ PricingIdle
    /\ parse_call \in {Some(c) : c \in ParseCalls}
    /\ parse_result = <<>>

call_is_create_transaction ==
    /\ parse_result = <<>>
    /\ parse_call[1].function = "is_create_transaction"
    /\ parse_result' = Some(is_create_transaction(parse_call[1].transaction))
    /\ UNCHANGED <<sniper, executor, pricing, parse_call>>

call_parse_token_creation ==
    /\ parse_result = <<>>
    /\ parse_call[1].function = "parse_token_creation"
    /\ parse_result' = Some(parse_token_creation(parse_call[1].transaction,
                                                 parse_call[1].signature))
    /\ UNCHANGED <<sniper, executor, pricing, parse_call>>

call_handle_update ==
    /\ parse_result = <<>>
    /\ parse_call[1].function = "handle_update"
    /\ parse_result' = Some(handle_update(parse_call[1].update))
    /\ UNCHANGED <<sniper, executor, pricing, parse_call>>

NextParse ==
    \/ call_is_create_transaction
    \/ call_parse_token_creation
    \/ call_handle_update

SpecParse == InitParse /\ [][NextParse]_vars

\* ------------------------------------------------------------------- claims
\* The BuyTriggered events for mint m waiting in a channel content q.
Triggers(q, m) ==
    Cardinality({i \in 1..Len(q) :
                   q[i].type = "BuyTriggered" /\ q[i].token_info.mint = m})

\* execute_buy is being awaited for mint m.
InFlight(m) == pc = "buying" /\ buying[1].token_info.mint = m

\* The errors execute_buy returns.
Failures ==
    {"RpcError", "SerializationError", "BondingCurveComplete", "TransactionFailed"}

\* The step is the decision loop handling the oldest event (up to the await
\* of execute_buy when that event is a BuyTriggered).
Handled == pc = "running" /\ queue' # queue /\ Len(queue') <= Len(queue)

\* The last handler ran threshold logic and the price conversion gave a
\* USD value at or above the threshold.
Qualified ==
    /\ obs.price # <<>>
    /\ obs.price[1].ok
    /\ obs.price[1].usd >= market_cap_threshold_usd

\* C1 as stated: while no buy of mint m has been started, the
\* BondingCurveUpdated events handled for m have emitted at most one
\* BuyTriggered for m.
C1_AtMostOneTrigger ==
    \A m \in Mints :
        (last_buy[m] = "none" /\ ~InFlight(m) /\ ~by_creation[m]) =>
            Triggers(queue, m) <= 1

\* C1 as amended: a handler emits at most one BuyTriggered, only when handling
\* a TokenCreated or BondingCurveUpdated event, and only for a mint that is
\* not in the bought-set.
C1_TriggerOnlyWhileNotBought ==
    [][\A m \in Mints :
         Triggers(queue', m) > Triggers(queue, m) =>
            /\ Handled
            /\ Head(queue).type \in {"TokenCreated", "BondingCurveUpdated"}
            /\ Triggers(queue', m) = Triggers(queue, m) + 1
            /\ m \notin bought_tokens]_vars

\* C1 witness: a qualifying BondingCurveUpdated was handled on the instant
\* path while its mint was in the bought-set, and emitted nothing.
C1_Witness ==
    /\ obs.handler = "BondingCurveUpdated"
    /\ obs.path = "instant"
    /\ Qualified
    /\ obs.token[1].mint \in bought_tokens
    /\ obs.emitted = <<>>

\* C2 as stated: when every update about mint m was published before m's first
\* execute_buy returned and every BuyTriggered for m came from a
\* BondingCurveUpdated, execute_buy is not invoked for m a second time.
C2_AtMostOneExecute ==
    \A m \in Mints :
        (~late[m] /\ ~by_creation[m]) => ~(InFlight(m) /\ last_buy[m] # "none")

\* C2 as amended: execute_buy is invoked for mint m only if no earlier
\* invocation for m exists or the latest one returned an error.
C2_ExecuteAgainOnlyAfterFailure ==
    [][\A m \in Mints :
         (InFlight(m)' /\ ~InFlight(m)) =>
            last_buy[m] \in {"none"} \cup Failures]_vars

\* C2 witness: a second execute_buy for a mint, after the first failed, from
\* BondingCurveUpdated events that were all published before the first
\* returned.
C2_Witness ==
    \E m \in Mints :
        InFlight(m) /\ last_buy[m] \in Failures /\ ~late[m] /\ ~by_creation[m]

\* C3: once execute_buy has returned a signature for mint m, execute_buy is
\* not invoked for m again (so at most one buy per mint succeeds).
C3_NoBuyAfterSuccess ==
    \A m \in Mints : last_buy[m] = "Ok" => ~InFlight(m)

\* C3 witness: a second BuyTriggered for a mint is handled after its buy
\* succeeded, and is skipped.
C3_Witness ==
    /\ obs.handler = "BuyTriggered"
    /\ obs.path = "already_bought"
    /\ last_buy[obs.token[1].mint] = "Ok"

\* C4: while execute_buy is in progress for a mint, the mint is in the
\* bought-set.
C4_BoughtBeforeExecute ==
    pc = "buying" => buying[1].token_info.mint \in bought_tokens

\* C4 witness: execute_buy is in progress.
C4_Witness == pc = "buying" /\ buying # <<>>

\* C5: when execute_buy returns an error for mint m, the handler removes m
\* from the bought-set, leaves the tracked map alone with m in it, makes no
\* further attempt itself, and leaves the test-mode gate open.
C5_FailureRollsBack ==
    [][\A m \in Mints :
         (InFlight(m) /\ pc' # "buying" /\ last_buy'[m] \in Failures) =>
            /\ bought_tokens' = bought_tokens \ {m}
            /\ m \notin bought_tokens'
            /\ tracked_tokens' = tracked_tokens
            /\ m \in DOMAIN tracked_tokens'
            /\ has_bought_once' = has_bought_once
            /\ ~(test_mode_single_buy' /\ has_bought_once')
            /\ pc' = "running"
            /\ buying' = <<>>
            /\ queue' = queue]_vars

\* C5 witness: after a failed execute_buy for a mint, a later qualifying
\* event has led to a new execute_buy for it.
C5_Witness ==
    \E m \in Mints : InFlight(m) /\ last_buy[m] \in Failures /\ late[m]

\* C6: when execute_buy returns a signature for mint m, the handler sets
\* has_bought_once, removes m from the tracked map, keeps m in the
\* bought-set, and the process exits iff single-buy test mode is on.
C6_SuccessEffects ==
    [][\A m \in Mints :
         (InFlight(m) /\ pc' # "buying" /\ last_buy'[m] = "Ok") =>
            /\ has_bought_once'
            /\ tracked_tokens' = Remove(tracked_tokens, m)
            /\ m \notin DOMAIN tracked_tokens'
            /\ bought_tokens' = bought_tokens
            /\ m \in bought_tokens'
            /\ pc' \in {"exited", "running"}
            /\ (pc' = "exited") <=> test_mode_single_buy]_vars

\* C6 witness: a buy succeeded in test mode and the process exited.
C6_Witness ==
    /\ obs.handler = "execute_buy"
    /\ obs.path = "Ok"
    /\ test_mode_single_buy
    /\ pc = "exited"

\* The last handler handled TokenCreated on the fallback path, the fetch gave
\* a curve and its USD market cap is at or above the threshold.
FallbackQualified ==
    /\ obs.handler = "TokenCreated"
    /\ obs.path = "fallback"
    /\ Qualified

\* The last handler emitted exactly one BuyTriggered, for the token it
\* handled, with the configured buy amount.
EmittedOne ==
    /\ Len(obs.emitted) = 1
    /\ obs.emitted[1].type = "BuyTriggered"
    /\ obs.emitted[1].token_info = obs.token[1]
    /\ obs.emitted[1].buy_amount = buy_amount_sol

\* C7 as stated: a TokenCreated with no cached curve whose fetched curve is at
\* or above the threshold emits exactly one BuyTriggered.
C7_FallbackAlwaysTriggers == FallbackQualified => EmittedOne

\* C7 as amended: a TokenCreated with no cached curve whose fetched curve is
\* at or above the threshold emits exactly one BuyTriggered, provided the
\* mint is not in the bought-set.
C7_FallbackTriggersUnlessBought ==
    (FallbackQualified /\ obs.token[1].mint \notin bought_tokens) => EmittedOne

\* C7 witness: such a TokenCreated has emitted its BuyTriggered.
C7_Witness ==
    /\ FallbackQualified
    /\ obs.token[1].mint \notin bought_tokens
    /\ obs.emitted # <<>>

\* C8: a TokenCreated for a mint whose buy has succeeded emits nothing, on
\* the cached path and on the fallback path.
C8_NoTriggerAfterSuccess ==
    (obs.handler = "TokenCreated" /\ last_buy[obs.token[1].mint] = "Ok") =>
        obs.emitted = <<>>

\* C8 witness: a qualifying TokenCreated re-delivered after the mint's buy
\* succeeded, handled on the cached path.
C8_Witness ==
    /\ obs.handler = "TokenCreated"
    /\ obs.path = "cached"
    /\ Qualified
    /\ last_buy[obs.token[1].mint] = "Ok"
    /\ obs.emitted = <<>>

\* C9: on each path where threshold logic ran, a BuyTriggered is emitted iff
\* the conversion succeeded with a USD value >= the threshold, the mint is
\* not in the bought-set and the test-mode gate is open; it carries the
\* token record and the configured buy amount.
C9_ThresholdDecision ==
    (obs.path \in {"cached", "fallback", "instant"} /\ obs.price # <<>>) =>
        /\ (obs.emitted # <<>>) <=>
              /\ Qualified
              /\ obs.token[1].mint \notin bought_tokens
              /\ ~(test_mode_single_buy /\ has_bought_once)
        /\ (obs.emitted # <<>>) =>
              /\ EmittedOne
              /\ tracked_tokens[obs.token[1].mint] = obs.emitted[1].token_info

\* C9 witness: the instant path emitted a BuyTriggered at exactly the
\* threshold.
C9_Witness ==
    /\ obs.path = "instant"
    /\ obs.price # <<>>
    /\ obs.price[1].usd = market_cap_threshold_usd
    /\ obs.emitted # <<>>

\* C10: when the price conversion fails in a handler, the handler emits
\* nothing, starts no execute_buy, and changes DecisionState only by what
\* precedes threshold logic (the insert into the tracked map, the overwrite
\* of the cache entry).
C10_PriceFailureNoAction ==
    [][(Handled /\ obs'.price # <<>> /\ ~obs'.price[1].ok) =>
          /\ queue' = Tail(queue)
          /\ pc' = "running"
          /\ buying' = <<>>
          /\ bought_tokens' = bought_tokens
          /\ has_bought_once' = has_bought_once
          /\ last_buy' = last_buy
          /\ cached_price' = cached_price
          /\ Head(queue).type \in {"TokenCreated", "BondingCurveUpdated"}
          /\ Head(queue).type = "TokenCreated" =>
                /\ tracked_tokens' =
                     Insert(tracked_tokens, Head(queue).token_info.mint,
                            Head(queue).token_info)
                /\ bonding_curve_cache' = bonding_curve_cache
          /\ Head(queue).type = "BondingCurveUpdated" =>
                /\ tracked_tokens' = tracked_tokens
                /\ bonding_curve_cache' =
                     Insert(bonding_curve_cache, Head(queue).bonding_curve,
                            Head(queue).data)]_vars

\* C10 witness: a handler on the fallback path saw the conversion fail.
C10_Witness ==
    /\ obs.path = "fallback"
    /\ obs.price # <<>>
    /\ ~obs.price[1].ok

\* The read of the curve account served to attempt i failed.
ReadFailed(i) == buy_call[1].env.reads[i].kind = "rpc_error"

\* C11: fetch_bonding_curve_data reads the account at most 3 times, sleeping
\* 0, 100 and 200 ms before the reads; it returns at the first read that
\* succeeds, with the decoded account or the decoding error; a failed read
\* before the third is followed by another read; after 3 failed reads it
\* returns RpcError and reads no more.
C11_RetrySchedule ==
    /\ attempt <= 3
    /\ slept = (IF attempt <= 1 THEN 0 ELSE IF attempt = 2 THEN 100 ELSE 300)
    /\ \A i \in 1..(attempt - 1) : ReadFailed(i)
    /\ bonding_result = <<>> =>
          /\ \A i \in 1..attempt : ReadFailed(i)
          /\ attempt < 3
          /\ stage = "fetching" => ENABLED fetch_bonding_curve_attempt
    /\ bonding_result # <<>> =>
          /\ attempt >= 1
          /\ ~ENABLED fetch_bonding_curve_attempt
          /\ bonding_result[1] = fetch_bonding_curve_data(buy_call[1].env.reads)
          /\ ReadFailed(attempt) =>
                (attempt = 3 /\ bonding_result[1] = Err("RpcError"))
          /\ buy_call[1].env.reads[attempt].kind = "account" =>
                bonding_result[1] = Ok(buy_call[1].env.reads[attempt].data[1])
          /\ buy_call[1].env.reads[attempt].kind = "undecodable" =>
                bonding_result[1] = Err("SerializationError")

\* C11 witness: two failed reads, then a read that succeeds and is returned.
C11_Witness ==
    /\ attempt = 3
    /\ ReadFailed(1) /\ ReadFailed(2)
    /\ bonding_result # <<>>
    /\ bonding_result[1].ok

\* One of the two fetches of execute_buy has returned an error.
FetchFailed ==
    \/ global_result # <<>> /\ ~global_result[1].ok
    \/ bonding_result # <<>> /\ ~bonding_result[1].ok

\* C12: when the global fetch or the curve fetch fails, execute_buy returns
\* that error (the global one first) and nothing is built, signed or
\* submitted; a transaction is built or submitted only after both succeeded.
C12_AbortOnFetchFailure ==
    /\ FetchFailed => effects = {}
    /\ effects # {} =>
          /\ global_result # <<>> /\ global_result[1].ok
          /\ bonding_result # <<>> /\ bonding_result[1].ok
    /\ "submitted" \in effects => {"built", "signed"} \subseteq effects
    /\ (FetchFailed /\ stage # "fetching") =>
          /\ stage = "returned"
          /\ returned = Some(Err(IF ~global_result[1].ok
                                 THEN global_result[1].error
                                 ELSE bonding_result[1].error))
    /\ stage = "returned" =>
          returned = Some(execute_buy(buy_call[1].token_info,
                                      buy_call[1].sol_amount, buy_call[1].env))

\* C12 witness: the curve was fetched, the global fetch failed, and
\* execute_buy has returned the global fetch's error.
C12_Witness ==
    /\ stage = "returned"
    /\ ~global_result[1].ok
    /\ bonding_result[1].ok
    /\ returned = Some(Err(global_result[1].error))

\* C13: when the first read of the global account fails, execute_buy does
\* not return before the global account has been read as many times as the
\* retry schedule has attempts.
C13_GlobalReadRetried ==
    (stage = "returned" /\ buy_call[1].env.global = "rpc_error") =>
        global_reads = Len(delays)

\* C14: after execute_buy for mint m has failed with BondingCurveComplete,
\* execute_buy is not invoked for m again.
C14_CurveCompleteTerminal ==
    \A m \in Mints : last_buy[m] = "BondingCurveComplete" => ~InFlight(m)

\* The kinds of event the decision loop has a handler for.
HandledKinds == {"TokenCreated", "BondingCurveUpdated", "BuyTriggered"}

\* C15: handling an event of any other kind than TokenCreated,
\* BondingCurveUpdated and BuyTriggered consumes it, leaves the tracked map,
\* the curve cache, the bought-set and the bought-once flag unchanged, and
\* emits nothing.
C15_OtherEventsNoEffect ==
    [][(Handled /\ Head(queue).type \notin HandledKinds) =>
          /\ queue' = Tail(queue)
          /\ tracked_tokens' = tracked_tokens
          /\ bonding_curve_cache' = bonding_curve_cache
          /\ bought_tokens' = bought_tokens
          /\ has_bought_once' = has_bought_once
          /\ pc' = "running"
          /\ buying' = buying
          /\ cached_price' = cached_price
          /\ obs'.emitted = <<>>]_vars

\* C15 witness: a ConnectionStatusChanged event has been handled and the
\* loop goes on.
C15_Witness ==
    /\ obs.handler = "ConnectionStatusChanged"
    /\ obs.emitted = <<>>
    /\ pc = "running"

\* C16: once it runs, the decision loop stops for no handler error: it
\* leaves process_events only through the exit after a successful buy in
\* test mode.
C16_LoopSurvivesErrors ==
    [][(pc \in {"running", "buying"} /\ pc' \notin {"running", "buying"}) =>
          /\ obs'.handler = "execute_buy"
          /\ obs'.path = "Ok"
          /\ test_mode_single_buy]_vars

\* C17: the channel is first-in first-out (a step appends one event, or
\* takes the oldest and appends what its handler emitted), and a
\* BondingCurveUpdated is handled in full on its own data: it overwrites the
\* cache entry and emits a BuyTriggered iff a tracked token has that curve
\* and that data's market cap passes the threshold logic, whatever waits
\* behind it in the channel.
C17_InOrderNoCoalescing ==
    [][/\ queue' # queue =>
             \/ /\ Len(queue') = Len(queue) + 1
                /\ SubSeq(queue', 1, Len(queue)) = queue
             \/ /\ Handled
                /\ queue' = Tail(queue) \o obs'.emitted
                /\ Len(obs'.emitted) <= 1
       /\ (Handled /\ Head(queue).type = "BondingCurveUpdated") =>
             /\ bonding_curve_cache' =
                  Insert(bonding_curve_cache, Head(queue).bonding_curve,
                         Head(queue).data)
             /\ (obs'.price # <<>> /\ obs'.price[1].ok) =>
                   \E p \in Prices :
                       obs'.price[1].usd = get_market_cap_sol(Head(queue).data) * p
             /\ (obs'.emitted # <<>>) <=>
                   /\ Matching(Head(queue).bonding_curve) # {}
                   /\ obs'.price # <<>>
                   /\ obs'.price[1].ok
                   /\ obs'.price[1].usd >= market_cap_threshold_usd
                   /\ obs'.token[1].mint \notin bought_tokens
                   /\ ~(test_mode_single_buy /\ has_bought_once)]_vars

\* C17 witness: a qualifying BondingCurveUpdated has emitted its BuyTriggered
\* while a later update of the same curve, below the threshold, waits in
\* the channel ahead of that BuyTriggered.
C17_Witness ==
    /\ obs.handler = "BondingCurveUpdated"
    /\ obs.emitted # <<>>
    /\ \E i \in 1..Len(queue) :
         /\ queue[i].type = "BondingCurveUpdated"
         /\ queue[i].bonding_curve = obs.token[1].bonding_curve
         /\ queue[i].data = LowCurve
         /\ \E j \in (i + 1)..Len(queue) : queue[j] = obs.emitted[1]

\* The connectivity-lost event.
ConnectionLost == ConnectionStatusChanged(FALSE)

\* C18: on a stream error the stream task sends ConnectionStatusChanged with
\* connected = false and starts its back-off; during the back-off it sends
\* nothing and it ends by returning the connection error; once it has
\* returned it sends nothing and does not subscribe again.
C18_StreamErrorThenStop ==
    [][/\ (queue' # queue /\ queue'[Len(queue')] = ConnectionLost) =>
             /\ stream = "subscribed"
             /\ stream' = "backoff"
             /\ queue' = Append(queue, ConnectionLost)
       /\ (stream' = "backoff" /\ stream # "backoff") =>
             queue' = Append(queue, ConnectionLost)
       /\ stream = "backoff" =>
             /\ queue' = queue
             /\ stream' \in {"backoff", "failed"}
       /\ stream \in {"failed", "ended"} =>
             /\ queue' = queue
             /\ stream' = stream]_vars

\* C18 witness: after domain events the stream failed; the task has sent
\* the connectivity-lost event last, waited, and returned the error.
C18_Witness ==
    /\ stream = "failed"
    /\ Len(queue) >= 3
    /\ queue[Len(queue)] = ConnectionLost
    /\ queue[Len(queue) - 1].type \in {"TokenCreated", "BondingCurveUpdated"}

\* The smaller of two numbers.
Min(a, b) == IF a < b THEN a ELSE b

\* s of the buy formula: virtual_token - (floor(n / i) + 1).
BuyFormula(curve, input) ==
    curve.virtual_token_reserves
      - (((curve.virtual_sol_reserves * curve.virtual_token_reserves)
            \div (curve.virtual_sol_reserves + input)) + 1)

\* A call of get_buy_price has returned.
BuyPriceReturned ==
    /\ price_result # <<>>
    /\ price_call[1].function = "get_buy_price"

\* C19: on a non-complete curve with virtual_token_reserves >= 1 and an
\* input > 0, get_buy_price returns min(s, real_token_reserves) with
\* s = virtual_token - (floor(virtual_sol * virtual_token / (virtual_sol +
\* input)) + 1), in every build, and so a value <= real_token_reserves.
C19_BuyPriceFormula ==
    (/\ BuyPriceReturned
     /\ ~price_call[1].curve.complete
     /\ price_call[1].curve.virtual_token_reserves >= 1
     /\ price_call[1].amount > 0) =>
        /\ BuyFormula(price_call[1].curve, price_call[1].amount) >= 0
        /\ price_result[1] =
             Ok(Min(BuyFormula(price_call[1].curve, price_call[1].amount),
                    price_call[1].curve.real_token_reserves))
        /\ price_result[1].value[1] <= price_call[1].curve.real_token_reserves

\* C19 witness: a call whose result is s, positive and below
\* real_token_reserves.
C19_Witness ==
    /\ BuyPriceReturned
    /\ ~price_call[1].curve.complete
    /\ price_call[1].amount > 0
    /\ price_result[1].ok
    /\ price_result[1].value[1] > 0
    /\ price_result[1].value[1] < price_call[1].curve.real_token_reserves

\* C20: on a curve whose complete flag is set, get_buy_price and
\* get_sell_price return BondingCurveComplete for every amount, 0 included,
\* and every fee rate.
C20_CompleteCurveFails ==
    (price_result # <<>> /\ price_call[1].curve.complete) =>
        price_result[1] = Err("BondingCurveComplete")

\* C20 witness: get_sell_price of amount 0 on a complete curve has returned.
C20_Witness ==
    /\ price_result # <<>>
    /\ price_call[1].function = "get_sell_price"
    /\ price_call[1].curve.complete
    /\ price_call[1].amount = 0
    /\ ~price_result[1].ok

\* A call of get_sell_price has returned.
SellPriceReturned ==
    /\ price_result # <<>>
    /\ price_call[1].function = "get_sell_price"

\* C21: on a non-complete curve get_buy_price(0) and get_sell_price(0, fee)
\* return 0, for every fee rate (above 10000 included), every reserve value
\* and every build.
C21_ZeroAmountIsFree ==
    (/\ price_result # <<>>
     /\ ~price_call[1].curve.complete
     /\ price_call[1].amount = 0) =>
        price_result[1] = Ok(0)

\* C21 witness: get_sell_price of amount 0 at a fee rate above 10000, on a
\* non-complete curve without virtual token reserves, has returned 0.
C21_Witness ==
    /\ SellPriceReturned
    /\ ~price_call[1].curve.complete
    /\ price_call[1].curve.virtual_token_reserves = 0
    /\ price_call[1].amount = 0
    /\ price_call[1].fee_basis_points > 10000
    /\ price_result[1] = Ok(0)

\* n of the sell formula: floor(input * virtual_sol / (virtual_token + input)).
SellFormula(curve, input) ==
    (input * curve.virtual_sol_reserves)
      \div (curve.virtual_token_reserves + input)

\* C23: on a non-complete curve with an input > 0 and a fee rate <= 10000,
\* get_sell_price returns n - floor(n * fee / 10000) with n = floor(input *
\* virtual_sol / (virtual_token + input)), in every build; the subtraction
\* does not underflow and the result is <= n <= virtual_sol.
C23_SellPriceFormula ==
    (/\ SellPriceReturned
     /\ ~price_call[1].curve.complete
     /\ price_call[1].amount > 0
     /\ price_call[1].fee_basis_points <= 10000) =>
        LET n == SellFormula(price_call[1].curve, price_call[1].amount)
            fee == (n * price_call[1].fee_basis_points) \div 10000
        IN  /\ fee <= n
            /\ price_result[1] = Ok(n - fee)
            /\ price_result[1].value[1] <= n
            /\ n <= price_call[1].curve.virtual_sol_reserves

\* C23 witness: a sale at a fee rate of 5000 whose proceeds are positive and
\* below n.
C23_Witness ==
    /\ SellPriceReturned
    /\ ~price_call[1].curve.complete
    /\ price_call[1].amount > 0
    /\ price_call[1].fee_basis_points = 5000
    /\ price_result[1].ok
    /\ price_result[1].value[1] > 0
    /\ price_result[1].value[1]
         < SellFormula(price_call[1].curve, price_call[1].amount)

\* C22: get_market_cap_sol returns 0 when virtual_token_reserves = 0 and
\* otherwise exactly floor(token_total_supply * virtual_sol_reserves /
\* virtual_token_reserves), for all u64 field values: narrowing the u128
\* quotient to u64 loses nothing.
C22_MarketCapExact ==
    (/\ price_result # <<>>
     /\ price_call[1].function = "get_market_cap_sol") =>
        price_result[1] =
          IF price_call[1].curve.virtual_token_reserves = 0
          THEN 0
          ELSE (price_call[1].curve.token_total_supply
                  * price_call[1].curve.virtual_sol_reserves)
                 \div price_call[1].curve.virtual_token_reserves

\* The curve with one more real token reserve.
OneMoreReserve(curve) ==
    [curve EXCEPT !.real_token_reserves = curve.real_token_reserves + 1]

\* Progress a is above progress b.
Above(a, b) ==
    a.numerator * b.denominator > b.numerator * a.denominator

\* C24: get_curve_progress returns 0 when token_total_supply = 0 and, with
\* token_total_supply fixed, a strictly larger value for a smaller
\* real_token_reserves.
C24_ProgressMonotone ==
    (/\ price_result # <<>>
     /\ price_call[1].function = "get_curve_progress") =>
        /\ price_call[1].curve.token_total_supply = 0 =>
             price_result[1] = Ok(Percent(0, 1))
        /\ (/\ price_call[1].curve.token_total_supply > 0
            /\ price_call[1].curve.real_token_reserves + 1 < U64Modulus) =>
             LET more == get_curve_progress(OneMoreReserve(price_call[1].curve),
                                            price_call[1].overflow_checks)
             IN  /\ price_result[1].ok
                 /\ more.ok
                 /\ Above(price_result[1].value[1], more.value[1])

\* C25: for every buy amount and every slippage setting validate accepts,
\* max_sol_cost is sol_amount + floor(sol_amount * max_slippage_bps / 10000)
\* with no u64 wrap-around, and so between sol_amount and 2 * sol_amount.
C25_MaxCostExact ==
    (/\ price_result # <<>>
     /\ price_call[1].function = "max_sol_cost"
     /\ ValidSlippage(price_call[1].fee_basis_points)) =>
        /\ price_result[1] =
             Ok(price_call[1].amount
                  + ((price_call[1].amount * price_call[1].fee_basis_points)
                       \div 10000))
        /\ price_call[1].amount <= price_result[1].value[1]
        /\ price_result[1].value[1] <= 2 * price_call[1].amount

\* C26: the account-size filter of the subscription request is the byte size
\* of the bonding-curve account layout.
C26_FilterIsLayoutSize ==
    stream = "subscribed" =>
        create_subscription_request.datasize = BondingCurveAccountSize

\* C28: a tracked record is written once: while its mint stays tracked, no
\* step changes the stored TokenInfo, a later TokenCreated for that mint
\* included.
C28_RecordImmutable ==
    [][\A m \in DOMAIN tracked_tokens :
         m \in DOMAIN tracked_tokens' => tracked_tokens'[m] = tracked_tokens[m]]_vars

\* A call of parse_token_creation has returned.
ParseReturned ==
    /\ parse_result # <<>>
    /\ parse_call[1].function = "parse_token_creation"

\* The message of the call's transaction; one without instructions stands
\* for a missing message.
CallMessage ==
    IF parse_call[1].transaction.transaction = <<>>
    THEN Message(<<>>, <<>>)
    ELSE IF parse_call[1].transaction.transaction[1].message = <<>>
    THEN Message(<<>>, <<>>)
    ELSE parse_call[1].transaction.transaction[1].message[1]

\* Instruction i of the call is a creation instruction: at least 8 bytes of
\* payload, the first 8 of them the creation discriminator.
IsCreation(i) ==
    LET data == CallMessage.instructions[i].data
    IN  /\ Len(data) >= 8
        /\ \A k \in 1..8 : data[k] = CREATE_DISCRIMINATOR[k]

\* The entry of the account-key table at the first account index of
\* instruction i, when there is one and it is a 32-byte key.
NamedKey(i) ==
    LET accounts == CallMessage.instructions[i].accounts
        keys == CallMessage.account_keys
    IN  IF accounts = <<>> THEN <<>>
        ELSE IF accounts[1] >= Len(keys) THEN <<>>
        ELSE IF Len(keys[accounts[1] + 1]) # 32 THEN <<>>
        ELSE Some(keys[accounts[1] + 1])

\* Payload decoding, mint resolution and curve-address derivation all succeed
\* for instruction i.
Succeeds(i) ==
    /\ from_bytes(CallMessage.instructions[i].data).ok
    /\ NamedKey(i) # <<>>
    /\ \E mint \in Pubkeys :
         /\ KeyBytes(mint) = NamedKey(i)[1]
         /\ derive_bonding_curve_pda(mint).ok

\* The record was built from instruction i: its mint is the key that i names
\* and its curve address is derived from that mint.
BuiltFrom(record, i) ==
    /\ NamedKey(i) = Some(KeyBytes(record.mint))
    /\ derive_bonding_curve_pda(record.mint) = Ok(record.bonding_curve)

\* C29 as stated: parse_token_creation returns no record whenever decoding,
\* mint resolution or derivation fails for a creation instruction, and a
\* returned record has mint = account_keys[first account index] of a creation
\* instruction and curve address = derive(mint).
C29_NoRecordOnAnyFailure ==
    ParseReturned =>
        /\ (\E i \in 1..Len(CallMessage.instructions) :
               IsCreation(i) /\ ~Succeeds(i)) => parse_result[1] = <<>>
        /\ parse_result[1] # <<>> =>
             \E i \in 1..Len(CallMessage.instructions) :
                 IsCreation(i) /\ BuiltFrom(parse_result[1][1], i)

\* C29 amended: parse_token_creation returns no record whenever decoding,
\* mint resolution or derivation fails for every creation instruction of the
\* transaction; a returned record has mint = account_keys[first account
\* index] of the first creation instruction for which none of them fails,
\* curve address = derive(mint), and the signature of the call.
C29_NoRecordWhenAllFail ==
    ParseReturned =>
        /\ (\A i \in 1..Len(CallMessage.instructions) :
               IsCreation(i) => ~Succeeds(i)) => parse_result[1] = <<>>
        /\ parse_result[1] # <<>> =>
             \E i \in 1..Len(CallMessage.instructions) :
                 /\ IsCreation(i) /\ Succeeds(i)
                 /\ \A j \in 1..(i - 1) : IsCreation(j) => ~Succeeds(j)
                 /\ BuiltFrom(parse_result[1][1], i)
                 /\ parse_result[1][1].creation_signature
                      = parse_call[1].signature

\* C29 witness: a record is returned from the second creation instruction of
\* a transaction whose first creation instruction failed.
C29_Witness ==
    /\ ParseReturned
    /\ Len(CallMessage.instructions) = 2
    /\ IsCreation(1) /\ ~Succeeds(1)
    /\ IsCreation(2) /\ Succeeds(2)
    /\ parse_result[1] # <<>>
    /\ BuiltFrom(parse_result[1][1], 2)

\* C30: is_create_transaction returns true exactly when some instruction has
\* a payload of at least 8 bytes whose first 8 bytes are the creation
\* discriminator; shorter payloads are passed over, and a transaction
\* without a message gives false.
C30_CreationDetected ==
    (/\ parse_result # <<>>
     /\ parse_call[1].function = "is_create_transaction") =>
        parse_result[1] =
          (\E i \in 1..Len(CallMessage.instructions) : IsCreation(i))

\* C30 witness: true is returned for a transaction whose first instruction
\* has a payload shorter than 8 bytes and whose second is a creation.
C30_Witness ==
    /\ parse_call[1].function = "is_create_transaction"
    /\ parse_result = Some(TRUE)
    /\ Len(CallMessage.instructions) = 2
    /\ Len(CallMessage.instructions[1].data) < 8
    /\ IsCreation(2)

\* A call of handle_update has returned the events it sent.
UpdateHandled ==
    /\ parse_result # <<>>
    /\ parse_call[1].function = "handle_update"

\* The account update of the call carries a 32-byte key and data that
\* decodes as a bonding curve.
AccountDecodes ==
    /\ parse_call[1].update.kind = "account"
    /\ parse_call[1].update.account # <<>>
    /\ Len(parse_call[1].update.account[1].pubkey) = 32
    /\ parse_call[1].update.account[1].data # <<>>

\* C31: one inbound update makes the stream task send at most one event: a
\* TokenCreated only for a transaction update in which a creation is detected
\* and parsed, exactly one BondingCurveUpdated (key and snapshot of the
\* update) for an account update that decodes, and nothing for an account
\* update that does not decode or for any other kind of update.
C31_OneEventPerUpdate ==
    UpdateHandled =>
        LET update == parse_call[1].update
            sent == parse_result[1]
        IN  /\ Len(sent) <= 1
            /\ (sent # <<>> /\ sent[1].type = "TokenCreated") =>
                 /\ update.kind = "transaction"
                 /\ update.transaction # <<>>
                 /\ is_create_transaction(update.transaction[1])
                 /\ parse_token_creation(update.transaction[1], "s1")
                      = Some(sent[1].token_info)
            /\ AccountDecodes =>
                 /\ Len(sent) = 1
                 /\ sent[1].type = "BondingCurveUpdated"
                 /\ KeyBytes(sent[1].bonding_curve) = update.account[1].pubkey
                 /\ sent[1].data = update.account[1].data[1]
            /\ (update.kind = "account" /\ ~AccountDecodes) => sent = <<>>
            /\ update.kind \notin {"transaction", "account"} => sent = <<>>
            /\ (sent # <<>> /\ update.kind = "transaction") =>
                 sent[1].type = "TokenCreated"

\* C31 witness: a transaction update with a creation has sent one
\* TokenCreated.
C31_Witness ==
    /\ UpdateHandled
    /\ parse_call[1].update.kind = "transaction"
    /\ Len(parse_result[1]) = 1
    /\ parse_result[1][1].type = "TokenCreated"

\* C32: handling BondingCurveUpdated{address, snapshot} overwrites the cache
\* entry of address with snapshot and changes no other entry, whether or not
\* a tracked token matches, and emits at most one BuyTriggered, for a tracked
\* token whose curve address is address.
C32_UpdateOverwritesCache ==
    [][(Handled /\ Head(queue).type = "BondingCurveUpdated") =>
          /\ bonding_curve_cache' =
               Insert(bonding_curve_cache, Head(queue).bonding_curve,
                      Head(queue).data)
          /\ tracked_tokens' = tracked_tokens
          /\ Len(obs'.emitted) <= 1
          /\ queue' = Tail(queue) \o obs'.emitted
          /\ obs'.emitted # <<>> =>
               /\ obs'.emitted[1].type = "BuyTriggered"
               /\ obs'.emitted[1].token_info.bonding_curve
                    = Head(queue).bonding_curve
               /\ obs'.emitted[1].token_info.mint \in DOMAIN tracked_tokens]_vars

\* C32 witness: the second or a later update was handled, for an address
\* that no tracked token has; the cache holds its snapshot.
C32_Witness ==
    /\ obs.handler = "BondingCurveUpdated"
    /\ obs.path = "none"
    /\ \E address \in DOMAIN bonding_curve_cache :
         /\ bonding_curve_cache[address] = HighCurve
         /\ \A m \in DOMAIN tracked_tokens :
              tracked_tokens[m].bonding_curve # address
    /\ published >= 2

\* C33: after TokenCreated(record) is handled the record is in the tracked
\* map; threshold logic ran on the cached snapshot, with no live fetch,
\* exactly when the cache had an entry for the record's curve address, and
\* on a live fetch otherwise; a failed fetch ended the handling with no
\* trigger and the loop running.
C33_LookupPath ==
    obs.handler = "TokenCreated" =>
        LET token_info == obs.token[1]
        IN  /\ token_info.mint \in DOMAIN tracked_tokens
            /\ tracked_tokens[token_info.mint] = token_info
            /\ obs.path \in {"cached", "fallback"}
            /\ obs.path = "cached"
                 <=> token_info.bonding_curve \in DOMAIN bonding_curve_cache
            /\ (obs.path = "fallback" /\ obs.price = <<>>) =>
                 /\ obs.emitted = <<>>
                 /\ pc = "running"

\* C33 witness: a TokenCreated without cache entry was handled, the live
\* fetch failed and nothing was emitted.
C33_Witness ==
    /\ obs.handler = "TokenCreated"
    /\ obs.path = "fallback"
    /\ obs.price = <<>>
    /\ obs.emitted = <<>>
    /\ obs.token[1].mint \in DOMAIN tracked_tokens

\* C34: while execute_buy is in flight (the loop is inside the BuyTriggered
\* handler) there is exactly that one call; a step either is the return of
\* that call, which leaves the queue alone, or keeps the call and the decision
\* state as they are and at most appends events to the queue.
C34_OneBuyInFlight ==
    [][pc = "buying" =>
         /\ buying # <<>>
         /\ \/ /\ pc' # "buying"
               /\ buying' = <<>>
               /\ queue' = queue
            \/ /\ pc' = "buying"
               /\ buying' = buying
               /\ decision' = decision
               /\ Len(queue') >= Len(queue)
               /\ SubSeq(queue', 1, Len(queue)) = queue]_vars

\* A buy is in flight while a second BuyTriggered waits at the head of the
\* queue.
C34_Witness ==
    /\ pc = "buying"
    /\ buying # <<>>
    /\ queue # <<>>
    /\ Head(queue).type = "BuyTriggered"

\* The mints whose execute_buy has succeeded.
Succeeded == {m \in Mints : last_buy[m] = "Ok"}

\* C35: a mint whose execute_buy succeeded is in the bought-set from then on,
\* and whenever the decision loop is between events the bought-set holds those
\* mints and no other: every failed or wallet-less attempt has been rolled
\* back.
C35_BoughtIsSucceeded ==
    /\ Succeeded \subseteq bought_tokens
    /\ pc = "running" => bought_tokens = Succeeded

\* Between events, after one mint was bought and the attempt for the other
\* failed.
C35_Witness ==
    /\ pc = "running"
    /\ \E m \in Mints, n \in Mints :
         /\ last_buy[m] = "Ok"
         /\ last_buy[n] \notin {"none", "Ok"}
         /\ m \in bought_tokens
         /\ n \notin bought_tokens

\* The cached snapshot of the curve of mint m is below the threshold at every
\* SOL price.
CachedBelowThreshold(m) ==
    LET bonding_curve == derive_bonding_curve_pda(m).value[1]
    IN  /\ bonding_curve \in DOMAIN bonding_curve_cache
        /\ \A p \in Prices :
             get_market_cap_sol(bonding_curve_cache[bonding_curve]) * p
               < market_cap_threshold_usd

\* C36: a handled BuyTriggered whose mint is not in the bought-set, with the
\* test-mode gate open, starts execute_buy for its token and amount, whatever
\* the cache holds for the curve at that time.
C36_TriggerNotReevaluated ==
    [][(/\ Handled
        /\ Head(queue).type = "BuyTriggered"
        /\ Head(queue).token_info.mint \notin bought_tokens
        /\ ~(test_mode_single_buy /\ has_bought_once))
       => /\ pc' = "buying"
          /\ buying' = Some([token_info |-> Head(queue).token_info,
                             buy_amount |-> Head(queue).buy_amount])]_vars

\* execute_buy is in flight for a mint whose cached snapshot is below the
\* threshold.
C36_Witness ==
    /\ pc = "buying"
    /\ obs.handler = "BuyTriggered"
    /\ obs.path = "executing"
    /\ CachedBelowThreshold(buying[1].token_info.mint)

\* C37: once the stream task has ended, in whichever way, and the channel
\* holds the connected event it sent, the channel also holds the
\* connectivity-lost event, sent after it.
C37_DisconnectBeforeEnd ==
    stream \in {"failed", "ended"} =>
        \A i \in 1..Len(queue) :
           queue[i] = ConnectionStatusChanged(TRUE) =>
               \E j \in (i + 1)..Len(queue) : queue[j] = ConnectionLost

\* The work a queue holds: one per event, and one more per event whose
\* handler can send a BuyTriggered.
Work(q) ==
    Len(q) + Cardinality({i \in 1..Len(q) :
                            q[i].type \in {"TokenCreated", "BondingCurveUpdated"}})

C39_PriorityFeeSafe ==
    (/\ price_result # <<>>
     /\ price_call[1].function = "priority_fee_microlamports"
     /\ validate(Config(price_call[1].amount,
                         price_call[1].fee_basis_points)).ok) =>
        /\ price_call[1].fee_basis_points # 0
        /\ ~FeeProductOverflows(Config(price_call[1].amount,
                                        price_call[1].fee_basis_points))
        /\ price_result[1].ok

\* C40: on a non-complete curve, whatever its reserves, and an input > 0 the
\* subtraction virtual_token - r of get_buy_price does not underflow and the
\* call returns a value; on any curve the call returns a value or
\* BondingCurveComplete.
C40_BuyPriceNeverUnderflows ==
    BuyPriceReturned =>
        /\ price_result[1].ok \/ price_result[1].error = "BondingCurveComplete"
        /\ (~price_call[1].curve.complete /\ price_call[1].amount > 0) =>
              /\ BuyFormula(price_call[1].curve, price_call[1].amount) >= 0
              /\ price_result[1].ok

====
